---------------------------- MODULE Spec2Model ----------------------------
(***************************************************************************)
(* drmdmp64_mass: the virtual FAT16 disk (virtualdisk.c), the SI EEPROM    *)
(* joybus driver (joybus.c) and the parts of the cartridge interface       *)
(* (n64cartinterface.c) they rest on, as a state machine.                  *)
(*                                                                         *)
(* Bytes are 0..255, 16-bit words 0..65535, uint32_t values are kept       *)
(* modulo 2^32.  A sector buffer is a function 0..511 -> byte; a 16-bit    *)
(* word p[i] of a buffer is buf[2i] + 256*buf[2i+1] (the RP2040 is little  *)
(* endian).                                                                *)
(***************************************************************************)
EXTENDS Integers, Sequences, FiniteSets, TLC

(* ------------------------------------------------------------------ *)
(* Bounds of the model (not program constants)                         *)
(* ------------------------------------------------------------------ *)
\* largest number of consecutive time-outs the simulated peripheral produces
\* for one unit; the driver transmits at most 12 times per unit, so 12
\* time-outs is "never answers"
MaxTimeouts == 12
\* number of distinct data patterns the simulated chips and the host use
NumPatterns == 2
\* longest command handed to convertToPio is MaxCmdLen (the write command)
MaxCmdLen == 10

(* ------------------------------------------------------------------ *)
(* Integer helpers                                                     *)
(* ------------------------------------------------------------------ *)
Pow2(n) == 2 ^ n
\* a uint32_t too large for the checker's integers is kept as its two 16-bit
\* halves << high, low >>
W32(hi, lo) == << hi, lo >>
\* a + b on two such words, modulo 2^32
Add32(a, b) ==
    LET lo == a[2] + b[2]
        hi == a[1] + b[1] + (lo \div 65536)
    IN  << hi % 65536, lo % 65536 >>
\* (uint32_t)(v << n) for a small v
Shl32(v, n) ==
    IF n >= 16 THEN << (v * (2 ^ (n - 16))) % 65536, 0 >>
    ELSE << ((v * (2 ^ n)) \div 65536) % 65536, (v * (2 ^ n)) % 65536 >>
\* bit n of such a word
Bit32(w, n) == IF n >= 16 THEN (w[1] \div (2 ^ (n - 16))) % 2 ELSE (w[2] \div (2 ^ n)) % 2
U16(x) == x % 65536
U8(x) == x % 256
\* bit n of x
Bit(x, n) == (x \div Pow2(n)) % 2
Min(a, b) == IF a < b THEN a ELSE b

\* the timeout sentinel 0xFFFFFFFF returned by GetInputWithTimeout, as the 32-bit
\* two's complement integer of the same bits
Sentinel == -1

(* ------------------------------------------------------------------ *)
(* Geometry of the virtual volume (virtualdisk.c)                      *)
(* ------------------------------------------------------------------ *)
CLUSTER_UP_SHIFT == 0
CLUSTER_UP_MUL == Pow2(CLUSTER_UP_SHIFT)
VOLUME_SIZE == CLUSTER_UP_MUL * 256 * 1024 * 1024
SECTOR_SIZE == 512
SECTOR_COUNT == VOLUME_SIZE \div SECTOR_SIZE
DISK_BLOCK_NUM == SECTOR_COUNT
CLUSTER_SIZE == 32768 * CLUSTER_UP_MUL
CLUSTER_SHIFT == 6 + CLUSTER_UP_SHIFT
CLUSTER_COUNT == VOLUME_SIZE \div CLUSTER_SIZE
VOLUME_SECTOR_COUNT == SECTOR_COUNT - 1
FAT_COUNT == 2
MAX_ROOT_DIRECTORY_ENTRIES == 512
ROOT_DIRECTORY_SECTORS == (MAX_ROOT_DIRECTORY_ENTRIES * 32) \div SECTOR_SIZE
SECTORS_PER_FAT == (2 * (CLUSTER_COUNT + SECTOR_SIZE - 1)) \div SECTOR_SIZE
MEDIA_TYPE == 248
PT_FAT16_LBA == 14

RASPBERRY_PI_TIME_FRAC == 100
RASPBERRY_PI_TIME == (16 * 2048) + (20 * 32) + (51 \div 2)
RASPBERRY_PI_DATE == (28 * 512) + (9 * 32) + 5

BOOT_OFFSET_SERIAL_NUMBER == 39
BOOT_OFFSET_LABEL == 43
MBR_OFFSET_SERIAL_NUMBER == 440

ATTR_READONLY == 1
ATTR_VOLUME_LABEL == 8
ATTR_ARCHIVE == 32

EEPROM_SIZE == 32 * 1024
EEPROM_CLUSTER_START == 0
FLASHRAM_SIZE == 128 * 1024
FLASHRAM_CLUSTER_START == EEPROM_CLUSTER_START + (EEPROM_SIZE \div CLUSTER_SIZE)
N64ROM_SIZE == 64 * 1024 * 1024
N64ROM_CLUSTER_START == FLASHRAM_CLUSTER_START + (FLASHRAM_SIZE \div CLUSTER_SIZE)
Z64ROM_CLUSTER_START == N64ROM_CLUSTER_START + (N64ROM_SIZE \div CLUSTER_SIZE)
FLASHRAMFLIP_CLUSTER_START == Z64ROM_CLUSTER_START + (N64ROM_SIZE \div CLUSTER_SIZE)
EEPROMFLIP_CLUSTER_START == FLASHRAMFLIP_CLUSTER_START + (FLASHRAM_SIZE \div CLUSTER_SIZE)
CARTTEST_CLUSTER_START == EEPROMFLIP_CLUSTER_START + (EEPROM_SIZE \div CLUSTER_SIZE)

CART_ADDRESS_START == 268435456
SRAM_ADDRESS_START == 134217728

CIC_TYPE_PAL == 0
CIC_TYPE_NTSC == 1
CIC_TYPE_INVALID == 255

(* ------------------------------------------------------------------ *)
(* Byte buffers                                                        *)
(* ------------------------------------------------------------------ *)
SectorIdx == 0 .. (SECTOR_SIZE - 1)
ZeroSector == [i \in SectorIdx |-> 0]
\* memset(buf, v, buf_size) with buf_size = 512
Memset(v) == [i \in SectorIdx |-> v]
\* memcpy(buf + off, bytes, Len(bytes))
Memcpy(b, off, bytes) ==
    [i \in SectorIdx |->
        IF i >= off /\ i < off + Len(bytes) THEN bytes[i - off + 1] ELSE b[i]]
\* ((uint16_t*)buf)[i]
Word16(b, i) == b[2 * i] + 256 * b[2 * i + 1]
\* little-endian byte images of integers
lsb_hword(x) == << x % 256, (x \div 256) % 256 >>
lsb_word(x) == << x % 256, (x \div 256) % 256, (x \div 65536) % 256, (x \div 16777216) % 256 >>
\* a buffer given by its 256 16-bit words
FromWords(w) ==
    [i \in SectorIdx |-> IF i % 2 = 0 THEN w[i \div 2] % 256 ELSE (w[i \div 2] \div 256) % 256]

\* flip16 that returns the word as read, bytes not exchanged
flip16NoSwap(value) == U16(value)

flip16(value) == U16(((value * 256) % 65536) + (value \div 256))

(* ------------------------------------------------------------------ *)
(* joybus.c: command encoding                                          *)
(* ------------------------------------------------------------------ *)
\* command[i] of a C array given as a TLA+ tuple
At(seq, i) == seq[i + 1]

\* result[slot] += v   (uint32_t arithmetic)
AddSlot(result, slot, v) == [result EXCEPT ![slot + 1] = Add32(@, v)]

\* the inner loop taking the bits of c least significant first (mask 1 << j)
PioByteLsbFirst(c) ==
    ((2 + Bit(c, 0)) * 1) + ((2 + Bit(c, 1)) * 4) + ((2 + Bit(c, 2)) * 16)
    + ((2 + Bit(c, 3)) * 64) + ((2 + Bit(c, 4)) * 256) + ((2 + Bit(c, 5)) * 1024)
    + ((2 + Bit(c, 6)) * 4096) + ((2 + Bit(c, 7)) * 16384)

\* what the passes j = 0 .. 7 of the inner loop add for one byte c, before the
\* shift by 16 * (i % 2): pass j adds the marker bit 2j + 1 and, at bit 2j, the
\* bit of c under the mask 0x80 >> j
PioByte(c) ==
    ((2 + Bit(c, 7)) * 1) + ((2 + Bit(c, 6)) * 4) + ((2 + Bit(c, 5)) * 16)
    + ((2 + Bit(c, 4)) * 64) + ((2 + Bit(c, 3)) * 256) + ((2 + Bit(c, 2)) * 1024)
    + ((2 + Bit(c, 1)) * 4096) + ((2 + Bit(c, 0)) * 16384)

\* for (j = 0; j < 8; j++) result[i / 2] += ...: the slot afterwards
PioInner(slot, command, i) == Add32(slot, Shl32(PioByte(At(command, i)), 16 * (i % 2)))

\* for (i = 0; i < len; i++) ...: slot k receives command[2k], then
\* command[2k + 1], as far as they are below len
PioLoop(result, command, len) ==
    [k \in DOMAIN result |->
        LET i0 == 2 * (k - 1)
            s0 == IF i0 < len THEN PioInner(result[k], command, i0) ELSE result[k]
        IN  IF i0 + 1 < len THEN PioInner(s0, command, i0 + 1) ELSE s0]

\* the end marker added to the slot of the last byte instead of result[len / 2]
PioEndLastByte(result, len) ==
    AddSlot(result, (len - 1) \div 2, Shl32(3, 2 * (8 * (len % 2))))

\* the end marker added to result[len / 2]
PioEnd(result, len) == AddSlot(result, len \div 2, Shl32(3, 2 * (8 * (len % 2))))

\* convertToPio(command, len, result, &resultLen): the slots written (none for len = 0)
convertToPio(command, len) ==
    IF len = 0 THEN [resultLen |-> 0, result |-> << >>]
    ELSE LET n == (len \div 2) + 1
             zero == [k \in 1 .. n |-> W32(0, 0)]
         IN  [resultLen |-> n,
              result |-> PioEnd(PioLoop(zero, command, len), len)]

(* ------------------------------------------------------------------ *)
(* joybus.c: receive with timeout                                      *)
(* ------------------------------------------------------------------ *)
\* the value standing for "the call never returns"
Hang == -2

\* GetInputWithTimeout(): fifo is what the peripheral sends in answer (empty: it
\* stays silent), t0 the value time_us_32() returns at entry.  With an empty FIFO
\* the loop leaves only when lastWriteTime /= 0 and more than 1000 us have passed;
\* time always passes, so it leaves exactly when t0 /= 0.
GetInputWithTimeout(fifo, t0) ==
    IF fifo # << >> THEN Head(fifo)
    ELSE IF t0 # 0 THEN Sentinel
    ELSE Hang

\* pio_sm_get_blocking() returns only when the FIFO holds a word: n further calls
\* return iff n words are left
BlockingReturns(fifo, n) == Len(fifo) >= n

(* ------------------------------------------------------------------ *)
(* joybus.c: InitEeprom (the probe)                                    *)
(* ------------------------------------------------------------------ *)
\* InitEeprom without the test buffer[0] == 0: any first word is taken for an answer
InitEepromResultAnyFirst(size, count, resp, t0) ==
    LET cmd == convertToPio(<< 0 >>, 1)
        first == GetInputWithTimeout(resp, t0)
        base == [size |-> size, count |-> count,
                 tx |-> << [cmd |-> cmd.result, sent |-> 1] >>, outcome |-> "done"]
    IN  IF first = Hang THEN [base EXCEPT !.outcome = "hung"]
        ELSE IF first # Sentinel THEN
            IF ~BlockingReturns(Tail(resp), 2) THEN [base EXCEPT !.outcome = "hung"]
            ELSE IF resp[2] = 128 THEN [base EXCEPT !.size = 512, !.count = 64]
            ELSE IF resp[2] = 192 THEN [base EXCEPT !.size = 512 * 4, !.count = 256]
            ELSE [base EXCEPT !.size = 0, !.count = 0]
        ELSE base

\* resp: the words the peripheral sends in answer to the info command, t0: the
\* timer at entry of the wait.  size/count are gEepromSize/ReadCount before.
InitEepromResult(size, count, resp, t0) ==
    LET cmd == convertToPio(<< 0 >>, 1)
        first == GetInputWithTimeout(resp, t0)
        base == [size |-> size, count |-> count,
                 tx |-> << [cmd |-> cmd.result, sent |-> 1] >>, outcome |-> "done"]
    IN  IF first = Hang THEN [base EXCEPT !.outcome = "hung"]
        ELSE IF first = 0 THEN
            IF ~BlockingReturns(Tail(resp), 2) THEN [base EXCEPT !.outcome = "hung"]
            ELSE IF resp[2] = 128 THEN [base EXCEPT !.size = 512, !.count = 64]
            ELSE IF resp[2] = 192 THEN [base EXCEPT !.size = 512 * 4, !.count = 256]
            ELSE [base EXCEPT !.size = 0, !.count = 0]
        ELSE base

(* ------------------------------------------------------------------ *)
(* The simulated EEPROM peripheral of one ReadEepromData/WriteEepromData *)
(* call: a record                                                      *)
(*   unit     the unit (0..63) at which it is slow                     *)
(*   timeouts how many transmissions of that unit's command it leaves  *)
(*            unanswered before it answers (every other unit is        *)
(*            answered at once)                                        *)
(*   short    TRUE: its answers are one word shorter than the driver   *)
(*            reads                                                    *)
(*   pat      which data it answers with                               *)
(*   zeroAt   the number of the transmission (1, 2, ..) of that unit's *)
(*            command at which time_us_32() reads 0 at the entry of    *)
(*            the wait; 0: none                                        *)
(* ------------------------------------------------------------------ *)
\* byte j of the 8-byte block b of the chip holding pattern pat
EepromByte(pat, b, j) == U8((b * 29) + (j * 7) + (pat * 101))

Silent(per, unit, retries) == unit = per.unit /\ retries < per.timeouts

\* what the chip sends in answer to a read of block b
ReadAnswer(per, unit, retries, b) ==
    IF Silent(per, unit, retries) THEN << >>
    ELSE [k \in 1 .. (IF per.short THEN 7 ELSE 8) |-> EepromByte(per.pat, b, k - 1)]

\* what the chip sends in answer to a write: the status words the driver reads
WriteAnswer(per, unit, retries) ==
    IF Silent(per, unit, retries) THEN << >>
    ELSE [k \in 1 .. (IF per.short THEN 1 ELSE 2) |-> per.pat % 2]

TimerAt(per, unit, retries) ==
    IF unit = per.unit /\ per.zeroAt = retries + 1 THEN 0 ELSE 1000000

(* ------------------------------------------------------------------ *)
(* joybus.c: the do/while of ReadEepromData and WriteEepromData        *)
(* ------------------------------------------------------------------ *)
\* do { send; firstInput = GetInputWithTimeout(); if (retries > 10) {..return;}
\*      retries += 1; } while (firstInput == 0xFFFFFFFF);
\* for one unit; write tells which command is sent, more is the number of words
\* read with pio_sm_get_blocking after the first.  A pass with retries = r is
\* the last one when the wait hangs (it returns Hang), when r > 10, or when a
\* word arrived; the pass with r = 11 is always such a pass.  The result tells how the loop
\* ended, how often the command was sent and what the peripheral answered.
SendLoop(unit, per, write, more, offset) ==
    LET Fifo(r) == IF write THEN WriteAnswer(per, unit, r)
                   ELSE ReadAnswer(per, unit, r, U8(unit + offset))
        First(r) == GetInputWithTimeout(Fifo(r), TimerAt(per, unit, r))
        Last(r) == r > 10 \/ First(r) # Sentinel
        retries == CHOOSE r \in 0 .. 11 : Last(r) /\ \A q \in 0 .. (r - 1) : ~Last(q)
        firstInput == First(retries)
        fifo == Fifo(retries)
    IN  [end |-> IF firstInput = Hang THEN "hung"
                 ELSE IF retries > 10 THEN "disabled"
                 ELSE IF ~BlockingReturns(Tail(fifo), more) THEN "hung"
                 ELSE "answered",
         sent |-> retries + 1,
         fifo |-> fifo]

\* the do/while of every unit of the for loop, computed once
UnitTable(per, write, more, offset) ==
    [u \in 0 .. 63 |-> SendLoop(u, per, write, more, offset)] @@ << >>

\* the first unit of the for loop whose do/while does not end with an answer
\* read completely (64: none)
StopUnit(units) ==
    LET Bad(u) == units[u].end # "answered"
    IN  IF \A u \in 0 .. 63 : ~Bad(u) THEN 64
        ELSE CHOOSE u \in 0 .. 63 : Bad(u) /\ \A v \in 0 .. (u - 1) : ~Bad(v)

(* ------------------------------------------------------------------ *)
(* joybus.c: ReadEepromData                                            *)
(* ------------------------------------------------------------------ *)
\* the read command of a unit: {0x04, (uint8_t)(ReadIndex + offset)}
ReadCommand(offset, ReadIndex) == << 4, U8(ReadIndex + offset) >>

\* ReadEepromData that clears the caller's buffer when gEepromSize is 0
ReadEepromDataZeroFill(size, offset, buffer, per) ==
    IF size = 0 THEN [size |-> size, buf |-> ZeroSector, tx |-> << >>, outcome |-> "done"]
    ELSE
        LET units == UnitTable(per, FALSE, 7, offset)
            stop == StopUnit(units)
            last == units[Min(stop, 63)]
        IN  [size |-> IF stop < 64 /\ last.end = "disabled" THEN 0 ELSE size,
             buf |-> [i \in SectorIdx |->
                        LET u == i \div 8
                        IN  IF u < stop THEN U8(units[u].fifo[(i % 8) + 1])
                            ELSE IF u = stop /\ last.end = "hung" /\ (i % 8) < Len(last.fifo)
                            THEN U8(last.fifo[(i % 8) + 1])
                            ELSE buffer[i]],
             tx |-> [k \in 1 .. Min(stop + 1, 64) |->
                        [cmd |-> convertToPio(ReadCommand(offset, k - 1), 2).result,
                         sent |-> units[k - 1].sent]],
             outcome |-> IF stop = 64 THEN "done" ELSE last.end]

\* ReadEepromData(offset, buffer) with gEepromSize = size: the buffer and
\* gEepromSize afterwards, the commands transmitted (one entry per unit: the
\* slots and how often they were sent), and how the call ended.  The for loop
\* runs the units below StopUnit to their end and stops inside unit StopUnit.
ReadEepromData(size, offset, buffer, per) ==
    IF size = 0 THEN [size |-> size, buf |-> buffer, tx |-> << >>, outcome |-> "done"]
    ELSE
        LET units == UnitTable(per, FALSE, 7, offset)
            stop == StopUnit(units)
            last == units[Min(stop, 63)]
        IN  [size |-> IF stop < 64 /\ last.end = "disabled" THEN 0 ELSE size,
             buf |-> [i \in SectorIdx |->
                        LET u == i \div 8
                        IN  IF u < stop THEN U8(units[u].fifo[(i % 8) + 1])
                            ELSE IF u = stop /\ last.end = "hung" /\ (i % 8) < Len(last.fifo)
                            THEN U8(last.fifo[(i % 8) + 1])
                            ELSE buffer[i]],
             tx |-> [k \in 1 .. Min(stop + 1, 64) |->
                        [cmd |-> convertToPio(ReadCommand(offset, k - 1), 2).result,
                         sent |-> units[k - 1].sent]],
             outcome |-> IF stop = 64 THEN "done" ELSE last.end]

(* ------------------------------------------------------------------ *)
(* joybus.c: WriteEepromData                                           *)
(* ------------------------------------------------------------------ *)
\* probeResponse[10] = {0x05, (uint8_t)(WriteIndex + offset)}, then
\* probeResponse[i + 2] = buffer[i + WriteIndex]
WriteCommand(offset, buffer, WriteIndex) ==
    << 5, U8(WriteIndex + offset) >> \o [i \in 1 .. 8 |-> buffer[(i - 1) + WriteIndex]]

\* the length handed to convertToPio for the write command
WriteCommandLen == 1

\* WriteEepromData that restores the size of a 4 Kbit chip when all its units
\* were answered
WriteEepromDataReenable(size, offset, buffer, per) ==
    LET units == UnitTable(per, TRUE, 1, offset)
        stop == StopUnit(units)
        last == units[Min(stop, 63)]
    IN  [size |-> IF stop < 64 /\ last.end = "disabled" THEN 0
                  ELSE IF stop = 64 THEN 512 ELSE size,
         buf |-> buffer,
         tx |-> [k \in 1 .. Min(stop + 1, 64) |->
                    [cmd |-> convertToPio(WriteCommand(offset, buffer, k - 1),
                                          WriteCommandLen).result,
                     sent |-> units[k - 1].sent]],
         outcome |-> IF stop = 64 THEN "done" ELSE last.end]

\* WriteEepromData(offset, buffer) with gEepromSize = size
WriteEepromData(size, offset, buffer, per) ==
    LET units == UnitTable(per, TRUE, 1, offset)
        stop == StopUnit(units)
        last == units[Min(stop, 63)]
    IN  [size |-> IF stop < 64 /\ last.end = "disabled" THEN 0 ELSE size,
         buf |-> buffer,
         tx |-> [k \in 1 .. Min(stop + 1, 64) |->
                    [cmd |-> convertToPio(WriteCommand(offset, buffer, k - 1),
                                          WriteCommandLen).result,
                     sent |-> units[k - 1].sent]],
         outcome |-> IF stop = 64 THEN "done" ELSE last.end]

(* ------------------------------------------------------------------ *)
(* String literals of virtualdisk.c as byte tuples                     *)
(* ------------------------------------------------------------------ *)
\* 0xeb, 0x3c, 0x90
BootJump == << 235, 60, 144 >>
\* 'MSWIN4.1'
BootId == << 77, 83, 87, 73, 78, 52, 46, 49 >>
\* 'DreamDump64'
BootLabel == << 68, 114, 101, 97, 109, 68, 117, 109, 112, 54, 52 >>
\* 'FAT16   '
BootFsType == << 70, 65, 84, 49, 54, 32, 32, 32 >>
\* 0xeb, 0xfe
BootLoop == << 235, 254 >>
\* "ROM     EEP"
FnEEP == << 82, 79, 77, 32, 32, 32, 32, 32, 69, 69, 80 >>
\* the first 26 bytes at the literal of line 415
UniEEP == << 114, 0, 111, 0, 109, 0, 46, 0, 101, 0, 101, 0, 112, 0, 0, 0, 0, 0, 0, 0, 0, 0, 0, 0, 0, 0 >>
\* "ROM     FLA"
FnFLA == << 82, 79, 77, 32, 32, 32, 32, 32, 70, 76, 65 >>
\* the first 26 bytes at the literal of line 422
UniFLA == << 114, 0, 111, 0, 109, 0, 46, 0, 102, 0, 108, 0, 97, 0, 0, 0, 0, 0, 0, 0, 0, 0, 0, 0, 0, 0 >>
\* "ROM     N64"
FnN64 == << 82, 79, 77, 32, 32, 32, 32, 32, 78, 54, 52 >>
\* the first 26 bytes at the literal of line 431
UniN64 == << 114, 0, 111, 0, 109, 0, 46, 0, 110, 0, 92, 54, 0, 92, 52, 0, 0, 0, 0, 0, 0, 0, 0, 0, 0, 0 >>
\* "ROMF    Z64"
FnZ64 == << 82, 79, 77, 70, 32, 32, 32, 32, 90, 54, 52 >>
\* the first 26 bytes at the literal of line 437
UniZ64 == << 114, 0, 111, 0, 109, 0, 46, 0, 122, 0, 92, 54, 0, 92, 52, 0, 0, 0, 0, 0, 0, 0, 0, 0, 0, 0 >>
\* "ROMF    FLA"
FnFLAF == << 82, 79, 77, 70, 32, 32, 32, 32, 70, 76, 65 >>
\* the first 26 bytes at the literal of line 445
UniFLAF == << 82, 0, 79, 0, 77, 0, 70, 0, 46, 0, 102, 0, 108, 0, 97, 0, 115, 0, 104, 0, 0, 0, 0, 0, 0, 0 >>
\* "ROMF    RAM"
FnRAMF == << 82, 79, 77, 70, 32, 32, 32, 32, 82, 65, 77 >>
\* the first 26 bytes at the literal of line 447
UniRAMF == << 82, 0, 79, 0, 77, 0, 70, 0, 46, 0, 114, 0, 97, 0, 109, 0, 0, 0, 0, 0, 0, 0, 0, 0, 0, 0 >>
\* "ROMF    EEP"
FnEEPF == << 82, 79, 77, 70, 32, 32, 32, 32, 69, 69, 80 >>
\* the first 26 bytes at the literal of line 458
UniEEPF == << 82, 0, 79, 0, 77, 0, 70, 0, 46, 0, 101, 0, 101, 0, 112, 0, 114, 0, 111, 0, 109, 0, 0, 0, 0, 0 >>
\* "CARTTESTTXT"
FnTXT == << 67, 65, 82, 84, 84, 69, 83, 84, 84, 88, 84 >>
\* the first 26 bytes at the literal of line 465
UniTXT == << 99, 0, 97, 0, 114, 0, 116, 0, 116, 0, 101, 0, 115, 0, 116, 0, 46, 0, 116, 0, 120, 0, 116, 0, 0, 0 >>
\* 'Not present'
StrNotPresent == << 78, 111, 116, 32, 112, 114, 101, 115, 101, 110, 116 >>
\* 'Failed'
StrFailed == << 70, 97, 105, 108, 101, 100 >>
\* 'OK!'
StrOK == << 79, 75, 33 >>
\* 'PAL'
StrPAL == << 80, 65, 76 >>
\* 'NTSC'
StrNTSC == << 78, 84, 83, 67 >>
\* '4K OK!'
Str4K == << 52, 75, 32, 79, 75, 33 >>
\* '16K OK!'
Str16K == << 49, 54, 75, 32, 79, 75, 33 >>
\* '\nCart tester report:\n\n    EEPROM     - '
Fmt0 == << 10, 67, 97, 114, 116, 32, 116, 101, 115, 116, 101, 114, 32, 114, 101, 112, 111, 114, 116, 58, 10, 10, 32, 32, 32, 32, 69, 69, 80, 82, 79, 77, 32, 32, 32, 32, 32, 45, 32 >>
\* '\n    SRAM       - '
Fmt1 == << 10, 32, 32, 32, 32, 83, 82, 65, 77, 32, 32, 32, 32, 32, 32, 32, 45, 32 >>
\* '\n    FlashRam   - '
Fmt2 == << 10, 32, 32, 32, 32, 70, 108, 97, 115, 104, 82, 97, 109, 32, 32, 32, 45, 32 >>
\* ' ('
Fmt3 == << 32, 40 >>
\* ')\n    CIC        - '
Fmt4 == << 41, 10, 32, 32, 32, 32, 67, 73, 67, 32, 32, 32, 32, 32, 32, 32, 32, 45, 32 >>
\* ' '
Fmt5 == << 32 >>
\* '\n    Romsize    - '
Fmt6 == << 10, 32, 32, 32, 32, 82, 111, 109, 115, 105, 122, 101, 32, 32, 32, 32, 45, 32 >>
\* 'MB\n    RomName    - '
Fmt7 == << 77, 66, 10, 32, 32, 32, 32, 82, 111, 109, 78, 97, 109, 101, 32, 32, 32, 32, 45, 32 >>
\* '\n    RomID      - '
Fmt8 == << 10, 32, 32, 32, 32, 82, 111, 109, 73, 68, 32, 32, 32, 32, 32, 32, 45, 32 >>
\* '\n    CartType   - '
Fmt9 == << 10, 32, 32, 32, 32, 67, 97, 114, 116, 84, 121, 112, 101, 32, 32, 32, 45, 32 >>
\* '\n    RomRegion  - '
Fmt10 == << 10, 32, 32, 32, 32, 82, 111, 109, 82, 101, 103, 105, 111, 110, 32, 32, 45, 32 >>
\* '\n    RomVersion - '
Fmt11 == << 10, 32, 32, 32, 32, 82, 111, 109, 86, 101, 114, 115, 105, 111, 110, 32, 45, 32 >>
\* '\n'
Fmt12 == << 10 >>
\* '6101'
Name6101 == << 54, 49, 48, 49 >>
\* '6102'
Name6102 == << 54, 49, 48, 50 >>
\* 'Unknown'
NameUnknown == << 85, 110, 107, 110, 111, 119, 110 >>

(* ------------------------------------------------------------------ *)
(* virtualdisk.c: boot sector, partition table, serial number          *)
(* ------------------------------------------------------------------ *)
boot_sector ==
    BootJump \o BootId \o lsb_hword(512) \o << CLUSTER_SIZE \div SECTOR_SIZE >>
    \o lsb_hword(1) \o << FAT_COUNT >> \o lsb_hword(MAX_ROOT_DIRECTORY_ENTRIES)
    \o (IF VOLUME_SECTOR_COUNT < 65536 THEN lsb_hword(VOLUME_SECTOR_COUNT) ELSE lsb_hword(0))
    \o << MEDIA_TYPE >> \o lsb_hword(SECTORS_PER_FAT) \o lsb_hword(1) \o lsb_hword(1)
    \o lsb_word(SECTOR_COUNT - VOLUME_SECTOR_COUNT)
    \o (IF VOLUME_SECTOR_COUNT >= 65536 THEN lsb_word(VOLUME_SECTOR_COUNT) ELSE lsb_word(0))
    \o << 0, 0, 41 >> \o << 0, 0, 0, 0 >> \o BootLabel \o BootFsType \o BootLoop

\* _ptable_data4, copied to ptable + 4 where ptable = buf + SECTOR_SIZE - 2 - 64
ptable_data4 ==
    << PT_FAT16_LBA, 0, 0, 0 >> \o lsb_word(1)
    \o << (SECTOR_COUNT - 1) % 256, ((SECTOR_COUNT - 1) \div 256) % 256,
          ((SECTOR_COUNT - 1) \div 65536) % 256 >>

PtableOffset == SECTOR_SIZE - 2 - 64

\* memcpy(ptable + 4, _ptable_data4, ..); ptable[64] = 0x55; ptable[65] = 0xaa
PartitionTablePatch(b) ==
    Memcpy(Memcpy(b, PtableOffset + 4, ptable_data4), PtableOffset + 64, << 85, 170 >>)

\* msc_get_serial_number32() that samples the timer at every call
msc_get_serial_number32_Resample(st, now) ==
    [serial_number32 |-> now, serial_number_valid |-> TRUE]

\* msc_get_serial_number32() on boot_device_state st, with time_us_32() = now
msc_get_serial_number32(st, now) ==
    IF ~st.serial_number_valid
    THEN [serial_number32 |-> now, serial_number_valid |-> TRUE]
    ELSE st

\* the branch for sector 0
MbrSector(sn) ==
    Memcpy(PartitionTablePatch(Memset(0)), MBR_OFFSET_SERIAL_NUMBER, lsb_word(sn))

\* the branch for sector 1
BootSector(sn) ==
    Memcpy(PartitionTablePatch(
               Memcpy(Memcpy(Memset(0), 0, boot_sector), BOOT_OFFSET_SERIAL_NUMBER, lsb_word(sn))),
           MBR_OFFSET_SERIAL_NUMBER, lsb_word(sn))

(* ------------------------------------------------------------------ *)
(* virtualdisk.c: the synthesized FAT                                  *)
(* ------------------------------------------------------------------ *)
RECURSIVE FatMirror(_)
\* while (lba >= SECTORS_PER_FAT) lba -= SECTORS_PER_FAT;
FatMirror(lba) == IF lba >= SECTORS_PER_FAT THEN FatMirror(lba - SECTORS_PER_FAT) ELSE lba

\* p[x] = (uint16_t)((lba * 0x100) + x + 1)
FatLink(lba, x) == U16((lba * 256) + x + 1)

\* FAT sector 0 with rom.eep linked into the clusters of rom.fla
FatSector0EepLinked ==
    FromWords([x \in 0 .. 255 |->
        IF x = 0 THEN 65280 + MEDIA_TYPE
        ELSE IF x = 1 THEN 65535
        ELSE IF x = 2 THEN 3
        ELSE IF x = 3 THEN 4
        ELSE IF x = 4 THEN 5
        ELSE IF x = 5 THEN 6
        ELSE IF x = 6 THEN 65535
        ELSE U16(x + 1)])

\* FAT sector 0 (after memset)
FatSector0 ==
    FromWords([x \in 0 .. 255 |->
        IF x = 0 THEN 65280 + MEDIA_TYPE
        ELSE IF x = 1 THEN 65535
        ELSE IF x = 2 THEN 65535
        ELSE IF x = 3 THEN 4
        ELSE IF x = 4 THEN 5
        ELSE IF x = 5 THEN 6
        ELSE IF x = 6 THEN 65535
        ELSE U16(x + 1)])

\* a sector in which every entry links to the next cluster
FatSectorLinked(lba) == FromWords([x \in 0 .. 255 |-> FatLink(lba, x)])

\* sector 8 with the end of rom.n64 one entry late
FatSector8LateEnd(lba) ==
    FromWords([x \in 0 .. 255 |-> IF x = 7 THEN 65535 ELSE FatLink(lba, x)])

\* sector 8: the last cluster of rom.n64 is entry 6
FatSector8(lba) ==
    FromWords([x \in 0 .. 255 |-> IF x = 6 THEN 65535 ELSE FatLink(lba, x)])

\* sector 16: entries 0..12 are written, the rest of the buffer is left as it was
FatSector16(lba, b) ==
    [i \in SectorIdx |->
        LET x == i \div 2
            w == IF x < 6 THEN FatLink(lba, x)
                 ELSE IF x = 6 THEN 65535
                 ELSE IF x = 7 THEN U16(8 + (lba * 256))
                 ELSE IF x = 8 THEN U16(9 + (lba * 256))
                 ELSE IF x = 9 THEN U16(10 + (lba * 256))
                 ELSE 65535
        IN  IF x > 12 THEN b[i]
            ELSE IF i % 2 = 0 THEN w % 256 ELSE w \div 256]

\* the FAT branch: lba counts from the first FAT sector, b is the buffer before
FatBranch(lba0, b) ==
    LET lba == FatMirror(lba0)
    IN  IF lba = 0 THEN FatSector0
        ELSE IF lba < 8 THEN FatSectorLinked(lba)
        ELSE IF lba = 8 THEN FatSector8(lba)
        ELSE IF lba < 16 THEN FatSectorLinked(lba)
        ELSE IF lba = 16 THEN FatSector16(lba, b)
        ELSE Memset(0)

(* ------------------------------------------------------------------ *)
(* virtualdisk.c: the root directory                                   *)
(* ------------------------------------------------------------------ *)
\* the long-name entry init_dir_entry writes (32 bytes)
LfnEntry(uniname) ==
    << 65 >> \o SubSeq(uniname, 1, 10) \o << 15, 0, 15 >> \o SubSeq(uniname, 11, 22)
    \o << At(uniname, 22), At(uniname, 23), 255, 255 >> \o << 255, 255 >>

\* the short entry with twice the length in its size field
ShortEntryByteLenDoubled(k, old, fn, cluster, len, attribute) ==
    IF k < 11 THEN At(fn, k)
    ELSE IF k = 11 THEN attribute
    ELSE IF k = 13 THEN RASPBERRY_PI_TIME_FRAC
    ELSE IF k \in {14, 15} THEN At(lsb_hword(RASPBERRY_PI_TIME), k - 14)
    ELSE IF k \in {16, 17} THEN At(lsb_hword(RASPBERRY_PI_DATE), k - 16)
    ELSE IF k \in {20, 21} THEN At(lsb_hword(U16(cluster \div 65536)), k - 20)
    ELSE IF k \in {22, 23} THEN At(lsb_hword(RASPBERRY_PI_TIME), k - 22)
    ELSE IF k \in {24, 25} THEN At(lsb_hword(RASPBERRY_PI_DATE), k - 24)
    ELSE IF k \in {26, 27} THEN At(lsb_hword(cluster % 65536), k - 26)
    ELSE IF k >= 28 THEN At(lsb_word(2 * len), k - 28)
    ELSE old

\* byte k (0..31) of the short entry after init_dir_entry, old its value before
ShortEntryByte(k, old, fn, cluster, len, attribute) ==
    IF k < 11 THEN At(fn, k)
    ELSE IF k = 11 THEN attribute
    ELSE IF k = 13 THEN RASPBERRY_PI_TIME_FRAC
    ELSE IF k \in {14, 15} THEN At(lsb_hword(RASPBERRY_PI_TIME), k - 14)
    ELSE IF k \in {16, 17} THEN At(lsb_hword(RASPBERRY_PI_DATE), k - 16)
    ELSE IF k \in {20, 21} THEN At(lsb_hword(U16(cluster \div 65536)), k - 20)
    ELSE IF k \in {22, 23} THEN At(lsb_hword(RASPBERRY_PI_TIME), k - 22)
    ELSE IF k \in {24, 25} THEN At(lsb_hword(RASPBERRY_PI_DATE), k - 24)
    ELSE IF k \in {26, 27} THEN At(lsb_hword(cluster % 65536), k - 26)
    ELSE IF k >= 28 THEN At(lsb_word(len), k - 28)
    ELSE old

\* init_dir_entry(entry, fn, uniname, cluster, len, attribute) with entry the
\* e-th 32-byte entry of buffer b
init_dir_entry(b, e, fn, uniname, cluster, len, attribute) ==
    LET lfn == LfnEntry(uniname)
    IN  [i \in SectorIdx |->
            IF i \div 32 = e THEN At(lfn, i % 32)
            ELSE IF i \div 32 = e + 1
                 THEN ShortEntryByte(i % 32, b[i], fn, cluster, len, attribute)
            ELSE b[i]]

\* root directory sector 0 with the ROMF.EEP entry emitted whether or not an
\* EEPROM was found
RootDirSector0AlwaysEepf(g) ==
    LET save == (g.gSRAMPresent # 0) \/ (g.gFramPresent # 0)
        b0 == Memcpy(Memcpy(Memset(0), 0, SubSeq(boot_sector, BOOT_OFFSET_LABEL + 1,
                                                 BOOT_OFFSET_LABEL + 11)),
                     11, << ATTR_VOLUME_LABEL + ATTR_ARCHIVE >>)
        c1 == 2
        b1 == init_dir_entry(b0, 1, FnEEP, UniEEP, c1, g.gEepromSize, 0)
        c2 == c1 + ((2 * 1024) \div CLUSTER_SIZE) + 1
        b2 == init_dir_entry(b1, 3, FnFLA, UniFLA, c2, IF save THEN 128 * 1024 ELSE 0, 0)
        c3 == c2 + ((128 * 1024) \div CLUSTER_SIZE)
        b3 == init_dir_entry(b2, 5, FnN64, UniN64, c3, g.gRomSize, ATTR_READONLY)
        c4 == c3 + ((64 * 1024 * 1024) \div CLUSTER_SIZE)
        b4 == init_dir_entry(b3, 7, FnZ64, UniZ64, c4, g.gRomSize, ATTR_READONLY)
        c5 == c4 + ((64 * 1024 * 1024) \div CLUSTER_SIZE)
        b5 == IF save
              THEN IF g.gFramPresent # 0
                   THEN init_dir_entry(b4, 9, FnFLAF, UniFLAF, c5, 128 * 1024, 0)
                   ELSE init_dir_entry(b4, 9, FnRAMF, UniRAMF, c5, 128 * 1024, 0)
              ELSE init_dir_entry(b4, 9, FnFLAF, UniFLAF, c5, 0, 0)
        c6 == c5 + ((128 * 1024) \div CLUSTER_SIZE)
        b6 == init_dir_entry(b5, 11, FnEEPF, UniEEPF, c6, g.gEepromSize, 0)
        e7 == 13
        c7 == c6 + ((2 * 1024) \div CLUSTER_SIZE) + 1
    IN  init_dir_entry(b6, e7, FnTXT, UniTXT, c7, 2 * 1024, ATTR_READONLY)

\* root directory sector 0.  g: the globals read (gEepromSize, gSRAMPresent,
\* gFramPresent, gRomSize)
RootDirSector0(g) ==
    LET save == (g.gSRAMPresent # 0) \/ (g.gFramPresent # 0)
        b0 == Memcpy(Memcpy(Memset(0), 0, SubSeq(boot_sector, BOOT_OFFSET_LABEL + 1,
                                                 BOOT_OFFSET_LABEL + 11)),
                     11, << ATTR_VOLUME_LABEL + ATTR_ARCHIVE >>)
        c1 == 2
        b1 == init_dir_entry(b0, 1, FnEEP, UniEEP, c1, g.gEepromSize, 0)
        c2 == c1 + ((2 * 1024) \div CLUSTER_SIZE) + 1
        b2 == init_dir_entry(b1, 3, FnFLA, UniFLA, c2, IF save THEN 128 * 1024 ELSE 0, 0)
        c3 == c2 + ((128 * 1024) \div CLUSTER_SIZE)
        b3 == init_dir_entry(b2, 5, FnN64, UniN64, c3, g.gRomSize, ATTR_READONLY)
        c4 == c3 + ((64 * 1024 * 1024) \div CLUSTER_SIZE)
        b4 == init_dir_entry(b3, 7, FnZ64, UniZ64, c4, g.gRomSize, ATTR_READONLY)
        c5 == c4 + ((64 * 1024 * 1024) \div CLUSTER_SIZE)
        b5 == IF save
              THEN IF g.gFramPresent # 0
                   THEN init_dir_entry(b4, 9, FnFLAF, UniFLAF, c5, 128 * 1024, 0)
                   ELSE init_dir_entry(b4, 9, FnRAMF, UniRAMF, c5, 128 * 1024, 0)
              ELSE init_dir_entry(b4, 9, FnFLAF, UniFLAF, c5, 0, 0)
        c6 == c5 + ((128 * 1024) \div CLUSTER_SIZE)
        b6 == IF g.gEepromSize # 0
              THEN init_dir_entry(b5, 11, FnEEPF, UniEEPF, c6, g.gEepromSize, 0)
              ELSE b5
        e7 == IF g.gEepromSize # 0 THEN 13 ELSE 11
        c7 == c6 + ((2 * 1024) \div CLUSTER_SIZE) + 1
    IN  init_dir_entry(b6, e7, FnTXT, UniTXT, c7, 2 * 1024, ATTR_READONLY)

\* the root directory branch: lba counts from the first directory sector
RootDirBranch(lba, g) == IF lba = 0 THEN RootDirSector0(g) ELSE Memset(0)

(* ------------------------------------------------------------------ *)
(* The cartridge bus (n64cartinterface.c)                              *)
(* ------------------------------------------------------------------ *)
\* the 16-bit word the cartridge ROM holds at an address (a sample image)
RomWord(address) == U16((((address \div 2) % 65536) * 251) + (address \div 131072) + 4660)

\* the 16-bit word the save chip holds at an offset (a sample image)
SaveWord(address) == U16((((address \div 2) % 65536) * 173) + (address \div 131072) + 13849)

\* entries of the bus log: << function, argument, argument >>
BusOp(fn, a, b) == << fn, a, b >>

\* set_address(address) followed by 256 read16(): the words read
ReadRom512(address) == [i \in 0 .. 255 |-> RomWord(address + (2 * i))]

\* FlashRamRead512B / SRAMRead512B(address, buffer, flip): the words stored in
\* the buffer (the accessors are not part of the sources at hand)
SaveRead512(address, flip) ==
    [i \in 0 .. 255 |->
        IF flip THEN flip16(SaveWord(address + (2 * i))) ELSE SaveWord(address + (2 * i))]

\* write32(value): two write16
write32(value) ==
    << BusOp("write16", value[1], 0), BusOp("write16", value[2], 0) >>

\* the inner loop of FlashRamWrite512B for page x: temp[2] holds the word made
\* of buffer[i + x*128] and buffer[i + x*128 + 1], but temp[3], one element past
\* the array, is what is flipped and written; junk is what that memory holds
FlashPageWords(buffer, x, flip, junk) ==
    [k \in 1 .. 64 |->
        LET i == 2 * (k - 1)
            temp2 == buffer[i + (x * 128)] + (256 * buffer[i + (x * 128) + 1])
            temp3 == IF flip THEN flip16(U16(junk)) ELSE junk
        IN  BusOp("write16", U16(temp3), 0)]

\* one page of FlashRamWrite512B
FlashPage(address, buffer, x, flip, junk) ==
    LET offset == address + (x * 128)
        cmdAddr == SRAM_ADDRESS_START + 65536
        \* 0x4B000000 | offset, 0xA5000000 | offset: offset is below 2^24
        sel == W32(19200 + ((offset \div 65536) % 256), offset % 65536)
        commit == W32(42240 + ((offset \div 65536) % 256), offset % 65536)
    IN  << BusOp("set_address", cmdAddr, 0) >> \o write32(sel)
        \o << BusOp("set_address", cmdAddr, 0) >> \o write32(W32(30720, 0))
        \o << BusOp("set_address", cmdAddr, 0) >> \o write32(W32(46080, 0))
        \o << BusOp("set_address", SRAM_ADDRESS_START, 0) >>
        \o FlashPageWords(buffer, x, flip, junk)
        \o << BusOp("set_address", cmdAddr, 0) >> \o write32(commit)

\* FlashRamWrite512B(address, buffer, flip): the bus operations made
FlashRamWrite512B(address, buffer, flip, junk) ==
    FlashPage(address, buffer, 0, flip, junk) \o FlashPage(address, buffer, 1, flip, junk)
    \o FlashPage(address, buffer, 2, flip, junk) \o FlashPage(address, buffer, 3, flip, junk)

(* ------------------------------------------------------------------ *)
(* n64cartinterface.c: cartio_init, the detection part                 *)
(* ------------------------------------------------------------------ *)
RECURSIVE RomSizeLoop(_, _, _)
\* for (x = 4; x < 64; x += 4): hits is the set of x at which the data repeats
\* the start of the ROM or the bus is open; size is gRomSize before
RomSizeLoop(x, hits, size) ==
    IF x >= 64 THEN size
    ELSE IF x \in hits THEN x * 1024 * 1024
    ELSE RomSizeLoop(x + 4, hits, size)

FlashTypes == {30, 29, 241, 142, 132}

\* the FlashRAM identification: readarr[0] == 0x11118001 and a known type
FramDetected(id0, id1) == id0 = 286359553 /\ (id1 % 256) \in FlashTypes

\* the CIC hello nibble
CicType(hello) ==
    IF hello = 5 THEN CIC_TYPE_PAL
    ELSE IF hello = 1 THEN CIC_TYPE_NTSC
    ELSE CIC_TYPE_INVALID

\* 0x9AF30466 and 0x6D089C64
CRC_NUS_6101 == W32(39667, 1126)
CRC_NUS_6102 == W32(27912, 40036)

\* the switch over the CRC of the boot code (the cases the sample cartridges use)
CicName(crc) ==
    IF crc = CRC_NUS_6101 THEN Name6101
    ELSE IF crc = CRC_NUS_6102 THEN Name6102
    ELSE NameUnknown

(* ------------------------------------------------------------------ *)
(* virtualdisk.c: the diagnostic text                                  *)
(* ------------------------------------------------------------------ *)
HexDigit(d) == IF d < 10 THEN 48 + d ELSE 55 + d

RECURSIVE HexDigits(_)
HexDigits(v) == IF v < 16 THEN << HexDigit(v) >> ELSE Append(HexDigits(v \div 16), HexDigit(v % 16))

RECURSIVE ZeroPad(_, _)
ZeroPad(digits, width) == IF Len(digits) >= width THEN digits ELSE ZeroPad(<< 48 >> \o digits, width)

\* %02X and %04X
FmtHex(v, width) == ZeroPad(HexDigits(v), width)

RECURSIVE FmtDec(_)
\* %lu
FmtDec(v) == IF v < 10 THEN << 48 + v >> ELSE Append(FmtDec(v \div 10), 48 + (v % 10))

\* the text sprintf produces.  g: the globals read
CartTestText(g) ==
    LET EepString == IF g.gEepromSize = 0 THEN StrNotPresent
                     ELSE IF g.gEepromSize = 512 THEN Str4K
                     ELSE IF g.gEepromSize = 2048 THEN Str16K
                     ELSE StrFailed
        CICString == IF g.gCICType = CIC_TYPE_INVALID THEN StrFailed
                     ELSE IF g.gCICType = CIC_TYPE_PAL THEN StrPAL
                     ELSE IF g.gCICType = CIC_TYPE_NTSC THEN StrNTSC
                     ELSE StrFailed
    IN  Fmt0 \o EepString
        \o Fmt1 \o (IF g.gSRAMPresent # 0 THEN StrOK ELSE StrNotPresent)
        \o Fmt2 \o (IF g.gFramPresent # 0 THEN StrOK ELSE StrNotPresent)
        \o Fmt3 \o FmtHex(g.gFlashType, 2) \o Fmt4 \o CICString \o Fmt5 \o g.gCICName
        \o Fmt6 \o FmtDec(g.gRomSize \div (1024 * 1024)) \o Fmt7 \o g.gGameTitle
        \o Fmt8 \o FmtHex(At(g.gGameCode, 1), 4) \o Fmt5
        \o << (At(g.gGameCode, 1) \div 256) % 256, At(g.gGameCode, 1) % 256 >>
        \o Fmt9 \o << At(g.gGameCode, 0) % 256 >>
        \o Fmt10 \o << (At(g.gGameCode, 2) \div 256) % 256 >>
        \o Fmt11 \o FmtHex(At(g.gGameCode, 2) % 256, 2) \o Fmt12

\* the CARTTEST branch: memset, then for cluster_offset 0 the text and its NUL
CartTestSector(cluster_offset, g) ==
    IF cluster_offset = 0 THEN Memcpy(Memset(0), 0, CartTestText(g) \o << 0 >>)
    ELSE Memset(0)

(* ------------------------------------------------------------------ *)
(* virtualdisk.c: tud_msc_read10_cb                                    *)
(* ------------------------------------------------------------------ *)
\* what a callback leaves behind: the buffer, gEepromSize, boot_device_state,
\* the value returned, the joybus commands transmitted, the bus operations, the
\* branch taken (region) and whether the call returned (outcome)
Result(b, g, sn) ==
    [buf |-> b, size |-> g.gEepromSize, sn |-> sn, ret |-> 512, tx |-> << >>,
     hw |-> << >>, region |-> "none", outcome |-> "done"]

\* address = ((cluster - START) * CLUSTER_SIZE) + (cluster_offset * SECTOR_SIZE), uint32_t
RegionAddress(cluster, start, cluster_offset) ==
    ((cluster - start) * CLUSTER_SIZE) + (cluster_offset * SECTOR_SIZE)

\* address / 64 where the uint32_t address is given as the integer congruent
\* to it modulo 2^32 and saturates at 0 instead of wrapping
AddressDiv64Clamped(address) == IF address < 0 THEN 0 ELSE address \div 64

\* address / 64 for the uint32_t address given as the integer congruent to it
\* modulo 2^32: a negative one stands for 2^32 + address (the subtraction
\* cluster - START wrapped), and 2^32 / 64 = 67108864
AddressDiv64(address) ==
    IF address < 0 THEN 67108864 + (address \div 64) ELSE address \div 64

\* the EEPROM branches: ReadEepromData(address / 64, buf)
EepromReadBranch(r, address, per, name) ==
    LET e == ReadEepromData(r.size, AddressDiv64(address), r.buf, per)
    IN  [r EXCEPT !.buf = e.buf, !.size = e.size, !.tx = e.tx, !.outcome = e.outcome,
                  !.region = name]

\* the save chip branches: FlashRamRead512B or SRAMRead512B(address, buf, flip)
SaveReadBranch(r, g, address, framFlip, sramFlip, name) ==
    IF g.gFramPresent # 0
    THEN [r EXCEPT !.buf = FromWords(SaveRead512(address, framFlip)),
                   !.hw = << BusOp("FlashRamRead512B", address, framFlip) >>,
                   !.region = name]
    ELSE [r EXCEPT !.buf = FromWords(SaveRead512(address, sramFlip)),
                   !.hw = << BusOp("SRAMRead512B", address, sramFlip) >>,
                   !.region = name]

\* the ROM branches: set_address(address), 256 x read16(), flipped for Z64
RomReadBranch(r, address, flip, name) ==
    LET w == ReadRom512(address)
    IN  [r EXCEPT !.buf = FromWords([i \in 0 .. 255 |-> IF flip THEN flip16(w[i]) ELSE w[i]]),
                  !.hw = << BusOp("set_address", address, 0), BusOp("read16", 256, 0) >>,
                  !.region = name]

\* the data region: lba counts from the first data sector
DataReadBranch(r, lba, g, per) ==
    LET cluster == lba \div Pow2(CLUSTER_SHIFT)
        cluster_offset == lba - (cluster * Pow2(CLUSTER_SHIFT))
    IN  IF cluster = CARTTEST_CLUSTER_START
        THEN [r EXCEPT !.buf = CartTestSector(cluster_offset, g), !.region = "carttest"]
        ELSE IF cluster = EEPROMFLIP_CLUSTER_START
        THEN EepromReadBranch(r, RegionAddress(cluster, EEPROMFLIP_CLUSTER_START, cluster_offset),
                              per, "eepromflip")
        ELSE IF cluster >= FLASHRAMFLIP_CLUSTER_START
        THEN SaveReadBranch(r, g, RegionAddress(cluster, FLASHRAMFLIP_CLUSTER_START, cluster_offset),
                            TRUE, TRUE, "flashramflip")
        ELSE IF cluster >= Z64ROM_CLUSTER_START
        THEN RomReadBranch(r, RegionAddress(cluster, Z64ROM_CLUSTER_START, cluster_offset)
                              + CART_ADDRESS_START, TRUE, "z64")
        ELSE IF cluster >= N64ROM_CLUSTER_START
        THEN RomReadBranch(r, RegionAddress(cluster, N64ROM_CLUSTER_START, cluster_offset)
                              + CART_ADDRESS_START, FALSE, "n64")
        ELSE IF cluster >= FLASHRAM_CLUSTER_START
        THEN SaveReadBranch(r, g, RegionAddress(cluster, FLASHRAM_CLUSTER_START, cluster_offset),
                            FALSE, TRUE, "flashram")
        ELSE IF cluster = EEPROM_CLUSTER_START
        THEN EepromReadBranch(r, RegionAddress(cluster, FLASHRAM_CLUSTER_START, cluster_offset),
                              per, "eeprom")
        ELSE r

\* tud_msc_read10_cb with the FAT test off by one (<= for <)
tud_msc_read10_cb_FatOffByOne(lba, b, g, sn, per, now) ==
    LET r == Result(b, g, sn)
        sn1 == msc_get_serial_number32(sn, now)
    IN  IF lba = 0
        THEN [r EXCEPT !.buf = MbrSector(sn1.serial_number32), !.sn = sn1, !.region = "mbr"]
        ELSE IF lba - 1 = 0
        THEN [r EXCEPT !.buf = BootSector(sn1.serial_number32), !.sn = sn1, !.region = "boot"]
        ELSE IF lba - 2 <= SECTORS_PER_FAT * FAT_COUNT
        THEN [r EXCEPT !.buf = FatBranch(lba - 2, b), !.region = "fat"]
        ELSE IF lba - 2 - (SECTORS_PER_FAT * FAT_COUNT) < ROOT_DIRECTORY_SECTORS
        THEN [r EXCEPT !.buf = RootDirBranch(lba - 2 - (SECTORS_PER_FAT * FAT_COUNT), g),
                       !.region = "rootdir"]
        ELSE DataReadBranch(r, lba - 2 - (SECTORS_PER_FAT * FAT_COUNT) - ROOT_DIRECTORY_SECTORS,
                            g, per)

\* tud_msc_read10_cb(lun, lba, 0, buf, 512).  b: the buffer before, g: the
\* globals, sn: boot_device_state, per: the EEPROM peripheral during the call,
\* now: time_us_32()
tud_msc_read10_cb(lba, b, g, sn, per, now) ==
    LET r == Result(b, g, sn)
        sn1 == msc_get_serial_number32(sn, now)
    IN  IF lba = 0
        THEN [r EXCEPT !.buf = MbrSector(sn1.serial_number32), !.sn = sn1, !.region = "mbr"]
        ELSE IF lba - 1 = 0
        THEN [r EXCEPT !.buf = BootSector(sn1.serial_number32), !.sn = sn1, !.region = "boot"]
        ELSE IF lba - 2 < SECTORS_PER_FAT * FAT_COUNT
        THEN [r EXCEPT !.buf = FatBranch(lba - 2, b), !.region = "fat"]
        ELSE IF lba - 2 - (SECTORS_PER_FAT * FAT_COUNT) < ROOT_DIRECTORY_SECTORS
        THEN [r EXCEPT !.buf = RootDirBranch(lba - 2 - (SECTORS_PER_FAT * FAT_COUNT), g),
                       !.region = "rootdir"]
        ELSE DataReadBranch(r, lba - 2 - (SECTORS_PER_FAT * FAT_COUNT) - ROOT_DIRECTORY_SECTORS,
                            g, per)

(* ------------------------------------------------------------------ *)
(* virtualdisk.c: tud_msc_write10_cb                                   *)
(* ------------------------------------------------------------------ *)
\* a read-only branch that reports no byte written
NotWritableZero(r, name) == [r EXCEPT !.ret = 0, !.region = name]

\* return 512; // Not writable.
NotWritable(r, name) == [r EXCEPT !.ret = 512, !.region = name]

EepromWriteBranch(r, address, buffer, per, name) ==
    LET e == WriteEepromData(r.size, AddressDiv64(address), buffer, per)
    IN  [r EXCEPT !.size = e.size, !.tx = e.tx, !.outcome = e.outcome, !.region = name]

\* FlashRamWrite512B(address, buffer, flip) or SRAMWrite512B(address + 0x08000000, ..)
SaveWriteBranch(r, g, address, buffer, flip, junk, name) ==
    IF g.gFramPresent # 0
    THEN [r EXCEPT !.hw = FlashRamWrite512B(address, buffer, flip, junk), !.region = name]
    ELSE [r EXCEPT !.hw = << BusOp("SRAMWrite512B", address + SRAM_ADDRESS_START, flip) >>,
                   !.region = name]

DataWriteBranch(r, lba, buffer, g, per, junk) ==
    LET cluster == lba \div Pow2(CLUSTER_SHIFT)
        cluster_offset == lba - (cluster * Pow2(CLUSTER_SHIFT))
    IN  IF cluster = CARTTEST_CLUSTER_START THEN NotWritable(r, "carttest")
        ELSE IF cluster = EEPROMFLIP_CLUSTER_START
        THEN EepromWriteBranch(r, RegionAddress(cluster, EEPROMFLIP_CLUSTER_START, cluster_offset),
                               buffer, per, "eepromflip")
        ELSE IF cluster >= FLASHRAMFLIP_CLUSTER_START /\ cluster < FLASHRAMFLIP_CLUSTER_START + 4
        THEN SaveWriteBranch(r, g, RegionAddress(cluster, FLASHRAMFLIP_CLUSTER_START, cluster_offset),
                             buffer, TRUE, junk, "flashramflip")
        ELSE IF cluster >= Z64ROM_CLUSTER_START THEN NotWritable(r, "z64")
        ELSE IF cluster >= N64ROM_CLUSTER_START THEN NotWritable(r, "n64")
        ELSE IF cluster >= FLASHRAM_CLUSTER_START /\ cluster < FLASHRAM_CLUSTER_START + 4
        THEN SaveWriteBranch(r, g, RegionAddress(cluster, FLASHRAM_CLUSTER_START, cluster_offset),
                             buffer, FALSE, junk, "flashram")
        ELSE IF cluster = EEPROM_CLUSTER_START
        THEN EepromWriteBranch(r, RegionAddress(cluster, FLASHRAM_CLUSTER_START, cluster_offset),
                               buffer, per, "eeprom")
        ELSE r

\* tud_msc_write10_cb(lun, lba, 0, buffer, bufsize).  b is the read buffer, which
\* the callback does not touch; junk: what FlashRamWrite512B finds past temp[]
tud_msc_write10_cb(lba, buffer, bufsize, b, g, sn, per, junk) ==
    LET r == [Result(b, g, sn) EXCEPT !.ret = bufsize]
    IN  IF lba >= DISK_BLOCK_NUM THEN [r EXCEPT !.ret = -1, !.region = "outside"]
        ELSE IF lba = 0 THEN NotWritable(r, "mbr")
        ELSE IF lba - 1 = 0 THEN NotWritable(r, "boot")
        ELSE IF lba - 2 < SECTORS_PER_FAT * FAT_COUNT THEN NotWritable(r, "fat")
        ELSE IF lba - 2 - (SECTORS_PER_FAT * FAT_COUNT) < ROOT_DIRECTORY_SECTORS
        THEN NotWritable(r, "rootdir")
        ELSE DataWriteBranch(r, lba - 2 - (SECTORS_PER_FAT * FAT_COUNT) - ROOT_DIRECTORY_SECTORS,
                             buffer, g, per, junk)

(* ------------------------------------------------------------------ *)
(* The state machine                                                   *)
(* ------------------------------------------------------------------ *)
VARIABLES
    pc,                \* "boot", "detected", "probed", "ready"; "hung": a call never returned
    gEepromSize,       \* joybus.c
    ReadCount,         \* joybus.c
    gRomSize,          \* n64cartinterface.c
    gFramPresent,      \* n64cartinterface.c
    gSRAMPresent,      \* n64cartinterface.c
    gIdent,            \* gCICType, gCICName, gGameTitle, gGameCode, gFlashType
    boot_device_state, \* virtualdisk.c: the cached serial number
    buf,               \* the sector buffer the host's reads are served into
    call,              \* the last call made: its name, lba, data, result, branch
    tx,                \* the joybus commands the last call transmitted (slot sequences)
    hw                 \* the cartridge bus operations the last call made

vars == << pc, gEepromSize, ReadCount, gRomSize, gFramPresent, gSRAMPresent, gIdent,
           boot_device_state, buf, call, tx, hw >>

\* the globals the callbacks read
Globals ==
    [gEepromSize |-> gEepromSize, gSRAMPresent |-> gSRAMPresent,
     gFramPresent |-> gFramPresent, gRomSize |-> gRomSize,
     gCICType |-> gIdent.gCICType, gCICName |-> gIdent.gCICName,
     gGameTitle |-> gIdent.gGameTitle, gGameCode |-> gIdent.gGameCode,
     gFlashType |-> gIdent.gFlashType]

NoCall == [name |-> "none", lba |-> 0, data |-> 0, ret |-> 0, region |-> "none",
           outcome |-> "done"]

\* what the buffer may hold before the first call
FillBytes == {U8(165 * k) : k \in 0 .. (NumPatterns - 1)}

\* the 512 bytes the host writes, for a pattern number
HostData(dat) == [i \in SectorIdx |-> U8((i * ((2 * dat) + 1)) + dat)]

\* the static initializers of the globals
Init ==
    /\ pc = "boot"
    /\ gEepromSize = 0
    /\ ReadCount = 0
    /\ gRomSize = 64 * 1024 * 1024
    /\ gFramPresent = 0
    /\ gSRAMPresent = 1
    /\ gIdent = [gCICType |-> CIC_TYPE_INVALID, gCICName |-> << >>, gGameTitle |-> << >>,
                 gGameCode |-> << 0, 0, 0 >>, gFlashType |-> 0]
    /\ boot_device_state = [serial_number32 |-> 0, serial_number_valid |-> FALSE]
    /\ buf \in {Memset(f) : f \in FillBytes}
    /\ call = NoCall
    /\ tx = << >>
    /\ hw = << >>

\* cartio_init up to the EEPROM probe.  cart describes the cartridge: header (the
\* first ROM word pair), hits (see RomSizeLoop), id0/id1 (the FlashRAM
\* identification), openBus (nothing answers at the SRAM address)
CartDetect(cart) ==
    /\ pc = "boot"
    /\ IF cart.header = W32(32823, 4672)
       THEN /\ pc' = "detected"
            /\ gRomSize' = RomSizeLoop(4, cart.hits, gRomSize)
            /\ gFramPresent' = IF FramDetected(cart.id0, cart.id1) THEN 1 ELSE gFramPresent
            /\ gSRAMPresent' = IF cart.openBus THEN 0 ELSE gSRAMPresent
            /\ gIdent' = [gIdent EXCEPT !.gFlashType = cart.id1 % 256]
       ELSE /\ pc' = "hung"
            /\ UNCHANGED << gRomSize, gFramPresent, gSRAMPresent, gIdent >>
    /\ call' = [NoCall EXCEPT !.name = "cartio_init"]
    /\ UNCHANGED << gEepromSize, ReadCount, boot_device_state, buf, tx, hw >>

\* cartio_init: InitEeprom(N64_EEPROM_DAT)
InitEeprom(resp, t0) ==
    /\ pc = "detected"
    /\ \E r \in {InitEepromResult(gEepromSize, ReadCount, resp, t0)} :
           /\ gEepromSize' = r.size
           /\ ReadCount' = r.count
           /\ tx' = r.tx
           /\ pc' = IF r.outcome = "hung" THEN "hung" ELSE "probed"
           /\ call' = [NoCall EXCEPT !.name = "InitEeprom", !.data = resp,
                                     !.outcome = r.outcome]
    /\ hw' = << >>
    /\ UNCHANGED << gRomSize, gFramPresent, gSRAMPresent, gIdent, boot_device_state, buf >>

\* cartio_init after the probe: ReadEepromData(0, Buffer) into a local buffer,
\* then the CIC hello, the title, the game code and the CIC name
CartIdentify(per, id) ==
    /\ pc = "probed"
    /\ \E r \in {ReadEepromData(gEepromSize, 0, ZeroSector, per)} :
           /\ gEepromSize' = r.size
           /\ tx' = r.tx
           /\ pc' = IF r.outcome = "hung" THEN "hung" ELSE "ready"
           /\ call' = [NoCall EXCEPT !.name = "ReadEepromData", !.outcome = r.outcome]
           /\ gIdent' = IF r.outcome = "hung" THEN gIdent
                         ELSE [gIdent EXCEPT !.gCICType = CicType(id.hello),
                                             !.gCICName = CicName(id.crc),
                                             !.gGameTitle = id.title, !.gGameCode = id.code]
    /\ hw' = << >>
    /\ UNCHANGED << ReadCount, gRomSize, gFramPresent, gSRAMPresent, boot_device_state, buf >>

\* the host reads sector lba
Read10(lba, per, now) ==
    /\ pc = "ready"
    /\ \E r \in {tud_msc_read10_cb(lba, buf, Globals, boot_device_state, per, now)} :
           /\ buf' = r.buf
           /\ gEepromSize' = r.size
           /\ boot_device_state' = r.sn
           /\ tx' = r.tx
           /\ hw' = r.hw
           /\ pc' = IF r.outcome = "hung" THEN "hung" ELSE "ready"
           /\ call' = [name |-> "read", lba |-> lba, data |-> 0, ret |-> r.ret,
                       region |-> r.region, outcome |-> r.outcome]
    /\ UNCHANGED << ReadCount, gRomSize, gFramPresent, gSRAMPresent, gIdent >>

\* the host writes pattern dat to sector lba
Write10(lba, dat, bufsize, per, junk) ==
    /\ pc = "ready"
    /\ \E r \in {tud_msc_write10_cb(lba, HostData(dat), bufsize, buf, Globals,
                                     boot_device_state, per, junk)} :
           /\ buf' = r.buf
           /\ gEepromSize' = r.size
           /\ boot_device_state' = r.sn
           /\ tx' = r.tx
           /\ hw' = r.hw
           /\ pc' = IF r.outcome = "hung" THEN "hung" ELSE "ready"
           /\ call' = [name |-> "write", lba |-> lba, data |-> dat, ret |-> r.ret,
                       region |-> r.region, outcome |-> r.outcome]
    /\ UNCHANGED << ReadCount, gRomSize, gFramPresent, gSRAMPresent, gIdent >>

(* ------------------------------------------------------------------ *)
(* The environment: cartridges, peripheral behaviours, host requests   *)
(* ------------------------------------------------------------------ *)
\* sample cartridges: a 64 MiB SRAM cartridge, a 16 MiB FlashRAM cartridge, a
\* 12 MiB cartridge without save chip, and one whose header does not read back
SramCart == [header |-> W32(32823, 4672), hits |-> {}, id0 |-> 0, id1 |-> 0, openBus |-> FALSE]
FlashCart ==
    [header |-> W32(32823, 4672), hits |-> {16, 32, 48}, id0 |-> 286359553, id1 |-> 12714014,
     openBus |-> FALSE]
NoSaveCart ==
    [header |-> W32(32823, 4672), hits |-> {12, 16, 20}, id0 |-> 0, id1 |-> 0, openBus |-> TRUE]
BadCart == [header |-> W32(0, 0), hits |-> {}, id0 |-> 0, id1 |-> 0, openBus |-> FALSE]
Carts == {SramCart, FlashCart, NoSaveCart, BadCart}

\* what the peripheral may answer to the probe
ProbeAnswers ==
    { << >>, << 0, 128, 0 >>, << 0, 192, 0 >>, << 0, 0, 0 >>, << 0, 64, 128 >>,
      << 255, 128, 0 >>, << 128, 192, 0 >>, << 0 >> }

\* the timer values at the entry of the probe's wait
ProbeTimers == {0, 1000000}

\* the identity read from the cartridge
Idents ==
    { [hello |-> 5, crc |-> CRC_NUS_6102, title |-> << 84, 69, 83, 84 >>,
       code |-> << 78, 21577, 17664 >>] }

\* a peripheral that answers every command at once
GoodPeripheral(pat) == [unit |-> 0, timeouts |-> 0, short |-> FALSE, pat |-> pat, zeroAt |-> 0]

\* a peripheral that is silent for k transmissions of unit u
SlowPeripheral(u, k) == [unit |-> u, timeouts |-> k, short |-> FALSE, pat |-> 1, zeroAt |-> 0]

\* all behaviours: slow at unit 0, 1 or 63 for up to MaxTimeouts transmissions,
\* short answers, or a timer that reads 0
AllPeripherals ==
    {SlowPeripheral(u, k) : u \in {0, 1, 63}, k \in 0 .. MaxTimeouts}
    \cup {GoodPeripheral(pat) : pat \in 1 .. NumPatterns}
    \cup {[GoodPeripheral(1) EXCEPT !.short = TRUE],
          [SlowPeripheral(0, 1) EXCEPT !.zeroAt = 1]}

\* a peripheral that answers, one that never does
FewPeripherals == {GoodPeripheral(1), SlowPeripheral(0, MaxTimeouts)}

\* the first sector of a data cluster
ClusterLba(cluster) ==
    2 + (SECTORS_PER_FAT * FAT_COUNT) + ROOT_DIRECTORY_SECTORS + (cluster * Pow2(CLUSTER_SHIFT))

\* the sectors at the boundaries of the regions of the volume
BoundaryLbas ==
    {0, 1, 2, 3, 34, 35, 36, 67, 68, 69, 99, 100, 101}
    \cup UNION {{ClusterLba(c) - 1, ClusterLba(c), ClusterLba(c) + 1} :
                  c \in {FLASHRAM_CLUSTER_START, N64ROM_CLUSTER_START, Z64ROM_CLUSTER_START,
                         FLASHRAMFLIP_CLUSTER_START, EEPROMFLIP_CLUSTER_START,
                         CARTTEST_CLUSTER_START, CARTTEST_CLUSTER_START + 1}}
    \cup {SECTOR_COUNT - 1, SECTOR_COUNT}

\* every sector of the first FAT copy, sectors of the second copy, and the root
\* directory
FatLbas == (2 .. 20) \cup {34, 35, 43, 51, 52, 67} \cup {68, 69, 99}

\* one sector of every region of the volume, and the first sector outside it
RegionLbas ==
    {0, 1, 2, 67, 68, 99, SECTOR_COUNT - 1, SECTOR_COUNT}
    \cup {ClusterLba(c) : c \in {EEPROM_CLUSTER_START, FLASHRAM_CLUSTER_START,
                                 N64ROM_CLUSTER_START, Z64ROM_CLUSTER_START,
                                 FLASHRAMFLIP_CLUSTER_START, EEPROMFLIP_CLUSTER_START,
                                 CARTTEST_CLUSTER_START}}

\* what FlashRamWrite512B may find in the memory past temp[]
JunkWords == {0, 48879}

\* the next-state relation over an environment e: the cartridges that may be
\* plugged in, the probe answers, the peripheral behaviours, the sectors the host
\* reads and writes, the times of the reads, the data and the stack contents of
\* the writes
NextOver(e) ==
    \/ \E cart \in e.carts : CartDetect(cart)
    \/ \E resp \in e.probes, t0 \in ProbeTimers : InitEeprom(resp, t0)
    \/ \E per \in e.peripherals, id \in Idents : CartIdentify(per, id)
    \/ \E lba \in e.reads, per \in e.peripherals, now \in e.nows : Read10(lba, per, now)
    \/ \E lba \in e.writes, dat \in e.dats, per \in e.peripherals, junk \in e.junks :
          Write10(lba, dat, SECTOR_SIZE, per, junk)

\* a host that reads and writes a few sectors of a volume backed by any
\* cartridge and any peripheral
Env ==
    [carts |-> Carts, probes |-> ProbeAnswers,
     peripherals |-> FewPeripherals \cup {SlowPeripheral(0, 10), SlowPeripheral(0, 11)},
     reads |-> {2, 68, 69, 99, ClusterLba(EEPROM_CLUSTER_START),
                ClusterLba(EEPROMFLIP_CLUSTER_START) + 1},
     nows |-> {2284687}, writes |-> {ClusterLba(EEPROM_CLUSTER_START)}, dats |-> {1},
     junks |-> {0}]

Next == NextOver(Env)

Spec == Init /\ [][Next]_vars

\* a host that reads the sectors at the boundaries of the regions
EnvRead ==
    [carts |-> {SramCart}, probes |-> {<< 0, 128, 0 >>, << 0, 192, 0 >>},
     peripherals |-> {GoodPeripheral(1)}, reads |-> BoundaryLbas, nows |-> {0, 2284687},
     writes |-> {0}, dats |-> {1}, junks |-> {0}]

NextRead == NextOver(EnvRead)

SpecRead == Init /\ [][NextRead]_vars

\* a host that reads the FAT and the root directory
EnvFat ==
    [carts |-> {SramCart}, probes |-> {<< >>, << 0, 128, 0 >>, << 0, 192, 0 >>},
     peripherals |-> {GoodPeripheral(1)}, reads |-> FatLbas, nows |-> {2284687},
     writes |-> {2}, dats |-> {1}, junks |-> {0}]

NextFat == NextOver(EnvFat)

SpecFat == Init /\ [][NextFat]_vars

\* a host that writes to every region
EnvWrite ==
    [carts |-> {SramCart, FlashCart}, probes |-> {<< >>, << 0, 128, 0 >>, << 0, 192, 0 >>},
     peripherals |-> FewPeripherals, reads |-> {68, ClusterLba(EEPROM_CLUSTER_START)},
     nows |-> {2284687}, writes |-> RegionLbas, dats |-> {1},
     junks |-> JunkWords]

NextWrite == NextOver(EnvWrite)

SpecWrite == Init /\ [][NextWrite]_vars

(* ------------------------------------------------------------------ *)
(* convertToPio on its own: every command length                       *)
(* ------------------------------------------------------------------ *)
\* command buffers of MaxCmdLen bytes: constant ones and ones whose bytes differ
PioCommands ==
    {[i \in 1 .. MaxCmdLen |-> U8(b + (s * (i - 1)))] : b \in {0, 4, 5, 255}, s \in {0, 37}}

\* a caller about to encode the first len bytes of a command buffer
InitPio ==
    /\ pc = "pio"
    /\ gEepromSize = 0
    /\ ReadCount = 0
    /\ gRomSize = 64 * 1024 * 1024
    /\ gFramPresent = 0
    /\ gSRAMPresent = 1
    /\ gIdent = [gCICType |-> CIC_TYPE_INVALID, gCICName |-> << >>, gGameTitle |-> << >>,
                 gGameCode |-> << 0, 0, 0 >>, gFlashType |-> 0]
    /\ boot_device_state = [serial_number32 |-> 0, serial_number_valid |-> FALSE]
    /\ buf = ZeroSector
    /\ \E c \in PioCommands, len \in 0 .. MaxCmdLen :
           call = [NoCall EXCEPT !.name = "command", !.lba = len, !.data = c]
    /\ tx = << >>
    /\ hw = << >>

\* convertToPio(command, len, result, &resultLen): call.lba holds len, call.ret
\* receives resultLen and tx the slots written
ConvertToPio ==
    /\ pc = "pio"
    /\ \E r \in {convertToPio(call.data, call.lba)} :
           /\ tx' = << [cmd |-> r.result, sent |-> 0] >>
           /\ call' = [call EXCEPT !.name = "convertToPio", !.ret = r.resultLen]
    /\ pc' = "converted"
    /\ UNCHANGED << gEepromSize, ReadCount, gRomSize, gFramPresent, gSRAMPresent, gIdent,
                    boot_device_state, buf, hw >>

NextPio == ConvertToPio

SpecPio == InitPio /\ [][NextPio]_vars

(* ------------------------------------------------------------------ *)
(* Properties                                                          *)
(* ------------------------------------------------------------------ *)
\* C4: for every command length L >= 1 convertToPio sets resultLen to
\* floor(L/2) + 1, writes that many slots, and slot floor(L/2) holds the end
\* marker 0b11 at bit 2 * (8 * (L mod 2)) with nothing above it; for L = 0 it sets
\* resultLen to 0 and writes no slot.
C4_EndMarker ==
    pc = "converted" =>
        LET L == call.lba
            slots == tx[1].cmd
            p == 2 * (8 * (L % 2))
        IN  IF L = 0 THEN call.ret = 0 /\ slots = << >>
            ELSE /\ call.ret = (L \div 2) + 1
                 /\ Len(slots) = call.ret
                 /\ Bit32(slots[(L \div 2) + 1], p) = 1
                 /\ Bit32(slots[(L \div 2) + 1], p + 1) = 1
                 /\ \A n \in (p + 2) .. 31 : Bit32(slots[(L \div 2) + 1], n) = 0

\* an odd and the longest command have been encoded
C4_Witness ==
    /\ pc = "converted"
    /\ call.lba = MaxCmdLen - 1
    /\ call.ret = ((MaxCmdLen - 1) \div 2) + 1
    /\ Len(tx[1].cmd) = call.ret

\* the region that owns sector lba, by the layout of the volume: the MBR, the
\* boot sector, two FAT copies of 33 sectors, 32 root directory sectors, then
\* the data clusters of 64 sectors
Owner(lba) ==
    IF lba = 0 THEN "mbr"
    ELSE IF lba = 1 THEN "boot"
    ELSE IF lba \in 2 .. 67 THEN "fat"
    ELSE IF lba \in 68 .. 99 THEN "rootdir"
    ELSE LET cluster == (lba - 100) \div 64
         IN  IF cluster = 0 THEN "eeprom"
             ELSE IF cluster \in 1 .. 4 THEN "flashram"
             ELSE IF cluster \in 5 .. 2052 THEN "n64"
             ELSE IF cluster \in 2053 .. 4100 THEN "z64"
             ELSE IF cluster \in 4101 .. 4104 THEN "flashramflip"
             ELSE IF cluster = 4105 THEN "eepromflip"
             ELSE IF cluster = 4106 THEN "carttest"
             ELSE "unowned"

\* the byte offset of sector lba inside the region that starts at data cluster
\* first
OffsetIn(lba, first) == ((lba - 100) - (first * 64)) * 512

\* the device access a read of sector lba makes when its region owns it: the
\* ROM address set, the save chip offset read, the first EEPROM block named
OwnerAccess(lba) ==
    LET region == Owner(lba)
    IN  IF region = "n64" THEN hw[1] = << "set_address", 268435456 + OffsetIn(lba, 5), 0 >>
        ELSE IF region = "z64"
        THEN hw[1] = << "set_address", 268435456 + OffsetIn(lba, 2053), 0 >>
        ELSE IF region = "flashram" THEN Len(hw) = 1 /\ hw[1][2] = OffsetIn(lba, 1)
        ELSE IF region = "flashramflip" THEN Len(hw) = 1 /\ hw[1][2] = OffsetIn(lba, 4101)
        ELSE IF region = "eeprom"
        THEN hw = << >>
             /\ tx[1].cmd = convertToPio(<< 4, (OffsetIn(lba, 0) \div 64) % 256 >>, 2).result
        ELSE IF region = "eepromflip"
        THEN hw = << >>
             /\ tx[1].cmd = convertToPio(<< 4, (OffsetIn(lba, 4105) \div 64) % 256 >>, 2).result
        ELSE hw = << >> /\ tx = << >>

C3_ProbeSize ==
    (call.name = "InitEeprom" /\ call.outcome = "done") =>
        LET resp == call.data
            zero == Len(resp) >= 2 /\ resp[1] = 0
        IN  gEepromSize = IF zero /\ resp[2] = 128 THEN 512
                          ELSE IF zero /\ resp[2] = 192 THEN 2048
                          ELSE 0

\* the probe found a 16 Kbit chip
C3_Witness ==
    /\ call.name = "InitEeprom"
    /\ call.outcome = "done"
    /\ call.data = << 0, 192, 0 >>
    /\ gEepromSize = 2048

\* C2: a ReadEepromData or WriteEepromData call that gave up on a peripheral that
\* never answers stopped in the first unit after the 11th transmission of its
\* command and left gEepromSize = 0.
C2_StopsAfterEleven ==
    call.outcome = "disabled" => (Len(tx) = 1 /\ tx[1].sent = 11 /\ gEepromSize = 0)

\* the files of the volume in directory order: the first cluster the directory
\* names (data cluster + 2) and the number of clusters reserved for the file
FileChains ==
    << [start |-> 2, n |-> 1], [start |-> 3, n |-> 4], [start |-> 7, n |-> 2048],
       [start |-> 2055, n |-> 2048], [start |-> 4103, n |-> 4], [start |-> 4107, n |-> 1],
       [start |-> 4108, n |-> 1] >>

\* the FAT entries of file f that lie in FAT sector s of buffer b link each
\* cluster to the next and hold 0xFFFF at the last
ChainIn(b, s, f) ==
    \A c \in f.start .. (f.start + f.n - 1) :
        (c \div 256 = s) =>
            Word16(b, c % 256) = IF c = f.start + f.n - 1 THEN 65535 ELSE c + 1

\* the first clusters the short entries of directory sector b name, in order
\* (entry 2k is the short entry of the k-th file)
DirStarts(b, n) == [k \in 1 .. n |-> Word16(b, (32 * k) + 13) + (65536 * Word16(b, (32 * k) + 10))]

\* C5: every file's chain starts at the cluster its directory entry names and
\* runs over exactly its N consecutive clusters (1 for the EEPROM files and the
\* diagnostic text, 4 for the save files, 2048 for the ROM files): in every FAT
\* sector read, each of these clusters links to the next and the N-th holds
\* 0xFFFF, so no chain leaves its file's clusters.
C5_FatChains ==
    /\ (call.name = "read" /\ call.lba \in 2 .. 67) =>
           \A k \in 1 .. 7 : ChainIn(buf, (call.lba - 2) % 33, FileChains[k])
    /\ (call.name = "read" /\ call.lba = 68) =>
           DirStarts(buf, IF gEepromSize # 0 THEN 7 ELSE 6)
               = IF gEepromSize # 0 THEN << 2, 3, 7, 2055, 4103, 4107, 4108 >>
                 ELSE << 2, 3, 7, 2055, 4103, 4108 >>

\* FAT sector 16, where three chains end, has been read
C5_Witness ==
    /\ call.name = "read"
    /\ call.lba = 18
    /\ Word16(buf, 6) = 65535
    /\ Word16(buf, 10) = 65535

\* C6: the bytes a read of a FAT sector produces do not depend on what the
\* buffer held before the call.
C6_FatSectorFunction ==
    (call.name = "read" /\ call.lba \in 2 .. 67) =>
        \A f \in FillBytes : buf = FatBranch(call.lba - 2, Memset(f))

\* the short names of the files a read of directory sector 0 lists
DirNames ==
    << FnEEP, FnFLA, FnN64, FnZ64,
       IF gFramPresent # 0 \/ gSRAMPresent = 0 THEN FnFLAF ELSE FnRAMF >>
    \o (IF gEepromSize # 0 THEN << FnEEPF >> ELSE << >>)
    \o << FnTXT >>

\* the 11 name bytes of directory entry e of buffer b
EntryName(b, e) == [i \in 1 .. 11 |-> b[(32 * e) + i - 1]]

C8_AbsentEeprom ==
    [][(pc = "ready" /\ gEepromSize = 0 /\ ReadCount = 0 /\ call'.name = "read") =>
          /\ (call'.lba = 68) =>
                 /\ \A i \in 28 .. 31 : buf'[64 + i] = 0
                 /\ \A e \in 0 .. 15 : EntryName(buf', e) # FnEEPF
          /\ (Owner(call'.lba) \in {"eeprom", "eepromflip"}) =>
                 (buf' = ZeroSector /\ tx' = << >>)]_vars

\* C9 as stated: with a 2048-byte EEPROM, ROM.EEP has size 2048 and four
\* clusters are chained from its first cluster, the fourth holding 0xFFFF.
C9_FourClusters ==
    (call.name = "read" /\ gEepromSize = 2048) =>
        /\ (call.lba = 68) =>
               (EntryName(buf, 2) = FnEEP /\ [i \in 1 .. 4 |-> buf[64 + 27 + i]] = lsb_word(2048))
        /\ (call.lba \in {2, 35}) =>
               LET c == 2
               IN  /\ Word16(buf, c) = c + 1
                   /\ Word16(buf, c + 1) = c + 2
                   /\ Word16(buf, c + 2) = c + 3
                   /\ Word16(buf, c + 3) = 65535

\* C9, amended: with a 2048-byte EEPROM, ROM.EEP has size 2048 and first
\* cluster 2, and in FAT sector 0 the chain from that cluster is one cluster
\* long: its entry holds 0xFFFF.
C9_OneCluster ==
    (call.name = "read" /\ gEepromSize = 2048) =>
        /\ (call.lba = 68) =>
               /\ EntryName(buf, 2) = FnEEP
               /\ [i \in 1 .. 4 |-> buf[64 + 27 + i]] = lsb_word(2048)
               /\ Word16(buf, 32 + 13) = 2
        /\ (call.lba \in {2, 35}) => Word16(buf, 2) = 65535

\* FAT sector 0 of a volume with a 2048-byte EEPROM has been read
C9_Witness ==
    /\ call.name = "read"
    /\ call.lba = 2
    /\ gEepromSize = 2048
    /\ Word16(buf, 2) = 65535
    /\ Word16(buf, 3) = 4

\* the sectors of the regions that do not take writes
ReadOnlyLba(lba) == Owner(lba) \in {"mbr", "boot", "fat", "rootdir", "n64", "z64", "carttest"}

\* C10: a write to a sector of the MBR, the boot sector, the FAT, the root
\* directory, either ROM file or the diagnostic text returns a positive byte
\* count, transmits no EEPROM command, makes no bus access, changes no state,
\* and a read of the same sector afterwards returns what it would have returned
\* before the write.
C10_ReadOnlyWrites ==
    [][(pc = "ready" /\ call'.name = "write" /\ ReadOnlyLba(call'.lba)) =>
          /\ call'.ret > 0
          /\ tx' = << >>
          /\ hw' = << >>
          /\ UNCHANGED << pc, gEepromSize, ReadCount, gRomSize, gFramPresent, gSRAMPresent,
                          gIdent, boot_device_state, buf >>
          /\ tud_msc_read10_cb(call'.lba, buf', Globals', boot_device_state',
                               GoodPeripheral(1), 2284687)
                 = tud_msc_read10_cb(call'.lba, buf, Globals, boot_device_state,
                                     GoodPeripheral(1), 2284687)]_vars

\* a write to the first sector of the native ROM has returned
C10_Witness ==
    /\ call.name = "write"
    /\ call.lba = 100 + (5 * 64)
    /\ call.ret = 512
    /\ tx = << >>
    /\ hw = << >>

\* C11: no read and no write of any sector, the sectors at or beyond the total
\* sector count included, returns a negative result; a read of a sector beyond
\* the volume leaves 512 zero bytes, and a write to one is discarded (nothing
\* transmitted, no bus access) with 512 reported.
C11_NoErrorResult ==
    (call.name \in {"read", "write"}) =>
        /\ call.ret >= 0
        /\ (call.name = "read" /\ call.lba >= SECTOR_COUNT) => buf = ZeroSector
        /\ (call.name = "write" /\ call.lba >= SECTOR_COUNT) =>
               (call.ret = 512 /\ tx = << >> /\ hw = << >>)

\* C12: a read of a data sector whose cluster lies beyond the diagnostic text
\* cluster (data cluster 4106), so belongs to none of the seven files, returns
\* 512 zero bytes, transmits no EEPROM command and makes no bus access.
C12_UnownedClusterZero ==
    (call.name = "read" /\ Owner(call.lba) = "unowned") =>
        (call.ret = 512 /\ buf = ZeroSector /\ tx = << >> /\ hw = << >>)

\* sector s of the file whose first data cluster is first
RomSectorLba(first, s) == 100 + (first * 64) + s

\* what a read of sector lba returns from the present state
ReadOf(lba) ==
    tud_msc_read10_cb(lba, buf, Globals, boot_device_state, GoodPeripheral(1), 2284687)

\* C13: for every sector offset s of the 64 MiB ROM region, the read of sector
\* s of ROM.N64 and the read of sector s of ROMF.Z64 both set the cartridge
\* address 0x10000000 + 512 * s, and every 16-bit word of the one sector is the
\* word of the other with its two bytes exchanged (so exchanging twice gives the
\* native word back).
C13_FlippedRom ==
    (call.name = "read" /\ Owner(call.lba) \in {"n64", "z64"}) =>
        LET first == IF Owner(call.lba) = "n64" THEN 5 ELSE 2053
            s == call.lba - RomSectorLba(first, 0)
            other == ReadOf(RomSectorLba(IF first = 5 THEN 2053 ELSE 5, s))
        IN  /\ s \in 0 .. ((64 * 1024 * 2) - 1)
            /\ hw[1] = << "set_address", 268435456 + (512 * s), 0 >>
            /\ other.hw[1] = << "set_address", 268435456 + (512 * s), 0 >>
            /\ other.region = (IF first = 5 THEN "z64" ELSE "n64")
            /\ \A i \in 0 .. 255 :
                   /\ buf[2 * i] = other.buf[(2 * i) + 1]
                   /\ buf[(2 * i) + 1] = other.buf[2 * i]

\* the last sector of ROMF.Z64 has been read, and its first word has two
\* different bytes
C13_Witness ==
    /\ call.name = "read"
    /\ call.lba = RomSectorLba(2053, (64 * 1024 * 2) - 1)
    /\ call.region = "z64"
    /\ hw[1] = << "set_address", 268435456 + 67108864 - 512, 0 >>
    /\ buf[0] # buf[1]

\* C14: every command a WriteEepromData call transmits is the encoding of the
\* 10 bytes of its unit (0x05, the block index (offset + unit) mod 256, 8 data
\* bytes), six slots long.
C14_FullWriteCommand ==
    (call.name = "write" /\ Owner(call.lba) \in {"eeprom", "eepromflip"}) =>
        LET offset == (((call.lba - 100) % 64) * 512) \div 64
        IN  \A k \in 1 .. Len(tx) :
                /\ Len(tx[k].cmd) = (10 \div 2) + 1
                /\ tx[k].cmd = convertToPio(WriteCommand(offset, HostData(call.data), k - 1),
                                            10).result

\* C15: a write to a sector of the EEPROM cluster or of the flipped EEPROM
\* cluster made while gEepromSize is 0 transmits no command and returns (it
\* waits on nothing).
C15_AbsentEepromWrite ==
    [][(pc = "ready" /\ gEepromSize = 0 /\ call'.name = "write"
          /\ Owner(call'.lba) \in {"eeprom", "eepromflip"}) =>
          (tx' = << >> /\ call'.outcome = "done" /\ gEepromSize' = 0)]_vars

\* C16: a ReadEepromData call made while gEepromSize is 0 (by a read of a
\* sector of the EEPROM cluster or of the flipped EEPROM cluster, or by
\* cartio_init after the probe) transmits no command, returns, and leaves every
\* byte of the caller's buffer and gEepromSize as they were.
C16_AbsentEepromRead ==
    [][/\ (pc = "ready" /\ gEepromSize = 0 /\ call'.name = "read"
             /\ Owner(call'.lba) \in {"eeprom", "eepromflip"}) =>
             (tx' = << >> /\ hw' = << >> /\ buf' = buf /\ call'.outcome = "done"
              /\ gEepromSize' = 0)
       /\ (pc = "probed" /\ gEepromSize = 0 /\ call'.name = "ReadEepromData") =>
             (tx' = << >> /\ call'.outcome = "done" /\ gEepromSize' = 0)]_vars

\* a sector of the EEPROM cluster has been read with no EEPROM present into a
\* buffer that held the root directory: nothing was sent and the directory is
\* still in the buffer
C16_Witness ==
    /\ call.name = "read"
    /\ call.lba = 100
    /\ gEepromSize = 0
    /\ tx = << >>
    /\ EntryName(buf, 0) = BootLabel

\* C17: in every step after the probe (the read cartio_init makes, the reads
\* and the writes of sectors) gEepromSize, once 0, stays 0; it goes from a
\* non-zero value to 0 only in a call that gave up on a unit whose every
\* transmission went unanswered; and it is always 0, 512 or 2048.
C17_DisabledIsTerminal ==
    [][(pc \in {"probed", "ready"}) =>
          /\ (gEepromSize = 0 => gEepromSize' = 0)
          /\ (gEepromSize # 0 /\ gEepromSize' # gEepromSize) =>
                 /\ gEepromSize' = 0
                 /\ call'.outcome = "disabled"
                 /\ tx' # << >>
                 /\ tx'[Len(tx')].sent > 10
          /\ gEepromSize \in {0, 512, 2048}
          /\ gEepromSize' \in {0, 512, 2048}]_vars

\* a chip the probe found (ReadCount = 64) was disabled, and a later write that
\* the peripheral answered in all 64 units has left gEepromSize at 0
C17_Witness ==
    /\ call.name = "write"
    /\ call.outcome = "done"
    /\ Len(tx) = 64
    /\ ReadCount = 64
    /\ gEepromSize = 0

\* C18: in a read of a FAT sector of either copy, every entry of a cluster
\* number above 0x100C (entries 13..255 of FAT sector 16 and every entry of FAT
\* sectors 17..32) is 0xFFFF.
C18_FillerEntries ==
    (call.name = "read" /\ call.lba \in 2 .. 67) =>
        LET s == (call.lba - 2) % 33
        IN  \A x \in 0 .. 255 : ((s * 256) + x > 4108) => Word16(buf, x) = 65535

\* the size field of directory entry e of buffer b
DirSize(b, e) ==
    b[(32 * e) + 28] + (256 * b[(32 * e) + 29]) + (65536 * b[(32 * e) + 30])
    + (16777216 * b[(32 * e) + 31])

RECURSIVE SumSeq(_)
SumSeq(q) == IF q = << >> THEN 0 ELSE Head(q) + SumSeq(Tail(q))

C20_AlwaysReturns ==
    (call.name \in {"InitEeprom", "ReadEepromData", "read", "write"}) =>
        call.outcome \in {"done", "disabled"}

\* the flip flag the save chip region of sector lba stands for
SaveFlip(lba) == Owner(lba) = "flashramflip"

\* the offset of sector lba in its save chip region
SaveOffset(lba) == OffsetIn(lba, IF Owner(lba) = "flashram" THEN 1 ELSE 4101)

\* C21: every read and every write of a sector of a save chip region calls the
\* FlashRAM accessor when gFramPresent is non-zero and the SRAM accessor
\* otherwise, with the flip flag FALSE in the native region (data clusters
\* 1..4) and TRUE in the flipped region (data clusters 4101..4104).
C21_SaveAccessor ==
    (call.name \in {"read", "write"} /\ Owner(call.lba) \in {"flashram", "flashramflip"}) =>
        IF call.name = "read"
        THEN hw = << BusOp(IF gFramPresent # 0 THEN "FlashRamRead512B" ELSE "SRAMRead512B",
                           SaveOffset(call.lba), SaveFlip(call.lba)) >>
        ELSE IF gFramPresent # 0
        THEN \E junk \in JunkWords :
                 hw = FlashRamWrite512B(SaveOffset(call.lba), HostData(call.data),
                                        SaveFlip(call.lba), junk)
        ELSE hw = << BusOp("SRAMWrite512B", SaveOffset(call.lba) + 134217728,
                           SaveFlip(call.lba)) >>

\* what a write of the host pattern 1 to sector lba does from the present state
WriteOf(lba) ==
    tud_msc_write10_cb(lba, HostData(1), SECTOR_SIZE, buf, Globals, boot_device_state,
                       GoodPeripheral(1), 0)

Bytes4(b, off) == << b[off], b[off + 1], b[off + 2], b[off + 3] >>

\* C23: the serial number is taken from the timer only by the first read of
\* sector 0 or 1; once it is valid no call changes it; no read of another
\* sector and no write touches it; and every read of sector 0 or 1 carries
\* the cached number at offset 0x1b8, a read of sector 1 also at offset 0x27.
C23_SerialSampledOnce ==
    [][(pc = "ready") =>
          /\ boot_device_state.serial_number_valid => boot_device_state' = boot_device_state
          /\ (boot_device_state' # boot_device_state) =>
                 (call'.name = "read" /\ call'.lba \in {0, 1}
                  /\ boot_device_state'.serial_number_valid)
          /\ (call'.name = "read" /\ call'.lba \in {0, 1}) =>
                 /\ boot_device_state'.serial_number_valid
                 /\ Bytes4(buf', 440) = lsb_word(boot_device_state'.serial_number32)
                 /\ (call'.lba = 1) =>
                        Bytes4(buf', 39) = lsb_word(boot_device_state'.serial_number32)]_vars

\* sector 1 has been read and carries the serial number 2284687 = 0x0022DC8F
\* that an earlier read cached, whatever the timer read at this read
C23_Witness ==
    /\ call.name = "read"
    /\ call.lba = 1
    /\ boot_device_state = [serial_number32 |-> 2284687, serial_number_valid |-> TRUE]
    /\ Bytes4(buf, 39) = << 143, 220, 34, 0 >>
    /\ Bytes4(buf, 440) = << 143, 220, 34, 0 >>

\* C24: in the slots convertToPio writes for the first L bytes of a command,
\* bit j (j = 0 the most significant) of byte i is the lower bit of the pair at
\* bit 2 * (8 * (i mod 2) + j) of slot floor(i / 2) and the upper bit of that
\* pair is 1; every pair that is neither the pair of a data bit nor the end
\* marker is 0 (no addition carried into it); and so a command that differs in
\* its first L bytes has other slots.
C24_BitPairs ==
    (pc = "converted" /\ call.lba >= 1) =>
        LET L == call.lba
            command == call.data
            slots == tx[1].cmd
        IN  /\ \A i \in 0 .. (L - 1) : \A j \in 0 .. 7 :
                   LET p == 2 * ((8 * (i % 2)) + j)
                   IN  /\ Bit32(slots[(i \div 2) + 1], p) = (command[i + 1] \div (2 ^ (7 - j))) % 2
                       /\ Bit32(slots[(i \div 2) + 1], p + 1) = 1
            /\ \A k \in 1 .. Len(slots) : \A n \in 0 .. 15 :
                   LET i == (2 * (k - 1)) + (n \div 8)
                       endPair == (k - 1 = L \div 2) /\ (n = 8 * (L % 2))
                   IN  (i >= L /\ ~endPair) =>
                           (Bit32(slots[k], 2 * n) = 0 /\ Bit32(slots[k], (2 * n) + 1) = 0)
            /\ \A other \in PioCommands :
                   (SubSeq(other, 1, L) # SubSeq(command, 1, L)) =>
                       convertToPio(other, L).result # slots

\* the command 5, 42, 79, .. has been encoded in full: 5 = 00000101 has its
\* bits j = 5 and j = 7 set
C24_Witness ==
    /\ pc = "converted"
    /\ call.lba = MaxCmdLen
    /\ call.data[1] = 5
    /\ call.data[2] = 42
    /\ Bit32(tx[1].cmd[1], 10) = 1
    /\ Bit32(tx[1].cmd[1], 14) = 1
    /\ Bit32(tx[1].cmd[1], 12) = 0

\* the call of sector lba, a read or a write as named, made from the present
\* state with peripheral per
EepromCall(name, lba, dat, per) ==
    IF name = "read"
    THEN tud_msc_read10_cb(lba, buf, Globals, boot_device_state, per, 2284687)
    ELSE tud_msc_write10_cb(lba, HostData(dat), SECTOR_SIZE, buf, Globals, boot_device_state,
                            per, 0)

\* C25: when a read or a write of an EEPROM sector, made with an EEPROM
\* present, ends in a unit whose last transmission the peripheral answered,
\* the call has not disabled the chip: gEepromSize is unchanged and the call
\* did not give up, however many transmissions of that unit went unanswered
\* before.
C25_AnsweredIsAccepted ==
    [][(pc = "ready" /\ gEepromSize # 0 /\ call'.name \in {"read", "write"}
          /\ Owner(call'.lba) \in {"eeprom", "eepromflip"}) =>
          \A per \in Env.peripherals :
              LET r == EepromCall(call'.name, call'.lba, call'.data, per)
                  unit == Len(tx') - 1
                  retries == tx'[Len(tx')].sent - 1
              IN  (r.tx = tx' /\ r.buf = buf' /\ r.size = gEepromSize'
                   /\ r.outcome = call'.outcome /\ ~Silent(per, unit, retries)) =>
                      (gEepromSize' = gEepromSize /\ call'.outcome # "disabled")]_vars

\* C26: with a 2048-byte EEPROM, a read of sector k (k = 0..3) of an EEPROM
\* cluster transmits the read commands of the blocks 64k .. 64k + 63 and no
\* other, and a write of that sector builds its commands for the same blocks,
\* so the four sectors of the file cover the 256 blocks of the chip, each block
\* once.
C26_DisjointBlockRanges ==
    (call.name = "read" /\ Owner(call.lba) \in {"eeprom", "eepromflip"}
       /\ call.outcome = "done" /\ gEepromSize = 2048 /\ (call.lba - 100) % 64 < 4) =>
        LET k == (call.lba - 100) % 64
            offset == AddressDiv64(RegionAddress(4105, EEPROMFLIP_CLUSTER_START, k))
        IN  /\ Len(tx) = 64
            /\ \A i \in 0 .. 63 :
                   /\ tx[i + 1].cmd = convertToPio(<< 4, (64 * k) + i >>, 2).result
                   /\ WriteCommand(offset, HostData(1), i)[2] = (64 * k) + i

\* C27: the 64 commands WriteEepromData builds for a buffer carry, unit by
\* unit, the bytes 8w .. 8w + 7 of the buffer, so a chip that stores the 8 data
\* bytes of each command and sends them back to the read of the same unit
\* makes ReadEepromData return the buffer that was written.
C27_WriteReadRoundTrip ==
    (call.name = "write" /\ Owner(call.lba) \in {"eeprom", "eepromflip"}
       /\ call.outcome = "done") =>
        LET buffer == HostData(call.data)
            offset == AddressDiv64(OffsetIn(call.lba, (call.lba - 100) \div 64))
            readback == [j \in SectorIdx |->
                           WriteCommand(offset, buffer, j \div 8)[(j % 8) + 3]]
        IN  /\ Len(tx) = 64
            /\ readback = buffer

\* C28: for every sector of the volume the read callback and the write
\* callback take the branch of the same region: after a read or a write of the
\* sector, the branch taken is the one a read of it and a write of it take.
C28_SameClassification ==
    (call.name \in {"read", "write"} /\ call.lba < SECTOR_COUNT /\ pc = "ready") =>
        /\ ReadOf(call.lba).region = WriteOf(call.lba).region
        /\ call.region = ReadOf(call.lba).region

\* C29: a write of a save chip sector on a FlashRAM cartridge makes, for each
\* of the four 128-byte pages x in order, the page select 0x4B000000 | offset,
\* then 0x78000000, then 0xB4000000 at the command address, then at the data
\* address the 64 words buffer[128x + i] | buffer[128x + i + 1] << 8 (i = 0, 2,
\* .., 126; bytes exchanged when flip is set), then the commit 0xA5000000 |
\* offset: 77 bus operations a page, the data words given by the buffer and the
\* flip flag alone.
C29_FlashPages ==
    (call.name = "write" /\ Owner(call.lba) \in {"flashram", "flashramflip"}
       /\ gFramPresent # 0) =>
        LET buffer == HostData(call.data)
            flip == SaveFlip(call.lba)
            command == << "set_address", 134217728 + 65536, 0 >>
        IN  /\ Len(hw) = 4 * 77
            /\ \A x \in 0 .. 3 :
                   LET offset == SaveOffset(call.lba) + (x * 128)
                       at == 77 * x
                   IN  /\ hw[at + 1] = command
                       /\ << hw[at + 2], hw[at + 3] >>
                              = write32(W32(19200 + (offset \div 65536), offset % 65536))
                       /\ hw[at + 4] = command
                       /\ << hw[at + 5], hw[at + 6] >> = write32(W32(30720, 0))
                       /\ hw[at + 7] = command
                       /\ << hw[at + 8], hw[at + 9] >> = write32(W32(46080, 0))
                       /\ hw[at + 10] = << "set_address", 134217728, 0 >>
                       /\ \A k \in 1 .. 64 :
                              LET i == 2 * (k - 1)
                                  word == buffer[(128 * x) + i] + (256 * buffer[(128 * x) + i + 1])
                                  swapped == ((word % 256) * 256) + (word \div 256)
                              IN  hw[at + 10 + k]
                                      = << "write16", IF flip THEN swapped ELSE word, 0 >>
                       /\ hw[at + 75] = command
                       /\ << hw[at + 76], hw[at + 77] >>
                              = write32(W32(42240 + (offset \div 65536), offset % 65536))

\* C30: when the peripheral sends nothing in answer to the probe, the wait of
\* the probe ends with the sentinel, whatever the timer read when the wait
\* began (0 included): the probe has returned and has taken the sentinel for
\* "no EEPROM", leaving gEepromSize and ReadCount 0.
C30_SentinelOnSilence ==
    (call.name = "InitEeprom" /\ call.data = << >>) =>
        /\ \A t0 \in ProbeTimers : GetInputWithTimeout(call.data, t0) = Sentinel
        /\ pc = "probed"
        /\ gEepromSize = 0
        /\ ReadCount = 0

=============================================================================
